---- MODULE Spec2Model ----
(***************************************************************************)
(* The portfolio site: the content loaders lib/ventures.ts and lib/mdx.ts   *)
(* (src/unnamed/part_006) and src/src/lib/experiences.ts, the pages and    *)
(* text functions that use them, and the client components of the home     *)
(* page.                                                                   *)
(*                                                                         *)
(* The content store is three directories of files.  A file name is the    *)
(* sequence of its segments, <<stem, extension>>; a file's text is either  *)
(* malformed (gray-matter throws on it) or carries a metadata header, a    *)
(* function from the keys it holds to their values.  A key the header does *)
(* not hold is outside its DOMAIN (JavaScript's undefined).                *)
(***************************************************************************)
EXTENDS Integers, Sequences, FiniteSets, TLC

VARIABLES
    dirExists,   \* dirExists[d]: directory d exists on disk
    files,       \* files[d]: the files of directory d, in readdirSync order
    result,      \* the last loader call: its name, arguments and outcome
    content,     \* the body text handed to a text function
    output,      \* what the text function made of it
    view         \* the client components in the browser

vars == <<dirExists, files, result, content, output, view>>

(***************************************************************************)
(* Bounds of the model.                                                    *)
(***************************************************************************)
MaxFiles == 2             \* files of a directory when every loader is called
MaxPostFiles == 3         \* files of content/blog in SpecPosts
MaxExperienceFiles == 4   \* files of content/experiences in SpecExperiences
MaxVentureFiles == 3      \* files of content/ventures in SpecVentures
MaxPageFiles == 2         \* files of a directory in SpecPages
MaxSlugFiles == 3         \* files of a directory in SpecSlugs
MaxHomeVentures == 7      \* files of content/ventures in SpecHome
MaxHomePosts == 4         \* files of content/blog in SpecHome
MaxBlogFiles == 3         \* files of content/blog in SpecBlog
MaxMounted == 3           \* client components mounted at a time in SpecViews
MaxEntries == 2           \* entries handed to one intersection callback
MaxBodyLen == 4           \* characters of a short body in SpecReadingTime
MaxTitleLen == 5          \* characters after "## " of a one-heading body
MaxLines == 2             \* lines of a body of several lines in SpecToc
MaxHashes == 4            \* '#' characters at the start of such a line
MaxRestLen == 3           \* characters after them

(***************************************************************************)
(* The directories.                                                        *)
(***************************************************************************)
venturesDirectory == "content/ventures"
experiencesDirectory == "content/experiences"
POSTS_PATH == "content/blog"

Directories == {venturesDirectory, experiencesDirectory, POSTS_PATH}

(***************************************************************************)
(* JavaScript values.  A number is NaN or an integer; null is the empty    *)
(* function, which no record equals.                                       *)
(***************************************************************************)
Null == <<>>
NaN == [nan |-> TRUE, num |-> 0]
Num(n) == [nan |-> FALSE, num |-> n]
Minus(x, y) == IF x.nan \/ y.nan THEN NaN ELSE Num(x.num - y.num)

Has(data, key) == key \in DOMAIN data

\* The outcome of a call: a returned value or a thrown exception.
Return(v) == [threw |-> FALSE, value |-> v]
Throw == [threw |-> TRUE, value |-> <<>>]

RECURSIVE FilterSeq(_, _)
FilterSeq(s, keep) ==
    IF s = <<>> THEN <<>>
    ELSE (IF keep[1] THEN <<Head(s)>> ELSE <<>>)
         \o FilterSeq(Tail(s), Tail(keep))

(***************************************************************************)
(* File names.                                                             *)
(***************************************************************************)
Stems == <<"a", "b", "c", "d", "e", "f", "g", "h">>
NoFile == "missing"      \* a slug no file of the store has

EndsWithMdx(fileName) ==
    Len(fileName) > 0 /\ fileName[Len(fileName)] = ".mdx"

\* A slip: the extension removed wherever it stands in the name.
StripEveryMdx(fileName) ==
    SelectSeq(fileName, LAMBDA segment : segment # ".mdx")

\* fileName.replace(/\.mdx$/, "")
StripMdx(fileName) ==
    IF EndsWithMdx(fileName) THEN SubSeq(fileName, 1, Len(fileName) - 1)
    ELSE fileName

\* `${slug}.mdx`
MdxPath(slug) == slug \o <<".mdx">>

(***************************************************************************)
(* The headers a file of each directory may carry.  "date" is the instant  *)
(* the date string denotes.  "title" stands for the required keys that the *)
(* loaders never read.                                                     *)
(***************************************************************************)
Dates == {1, 2}
ExperienceOrders == {1, 2}
VentureOrders == {1, 2, 1000}

OptionalField(key, values) ==
    {<<>>} \cup {[k \in {key} |-> v] : v \in values}

Merge(f, g) ==
    [k \in DOMAIN f \cup DOMAIN g |-> IF k \in DOMAIN f THEN f[k] ELSE g[k]]

PostHeaders ==
    {Merge(d, p) : d \in OptionalField("date", Dates),
                   p \in OptionalField("published", BOOLEAN)}

ExperienceHeaders ==
    {<<>>} \cup
    {Merge([current |-> c], o) : c \in BOOLEAN,
                                 o \in OptionalField("order", ExperienceOrders)}

VentureHeaders ==
    {<<>>} \cup
    {Merge([title |-> "t"], Merge(o, f)) :
        o \in OptionalField("order", VentureOrders),
        f \in OptionalField("featured", BOOLEAN)}

HeadersOf(dir) ==
    CASE dir = POSTS_PATH -> PostHeaders
      [] dir = experiencesDirectory -> ExperienceHeaders
      [] dir = venturesDirectory -> VentureHeaders

\* The keys of a complete header that the model carries.
RequiredKeys(dir) ==
    CASE dir = POSTS_PATH -> {"date"}
      [] dir = experiencesDirectory -> {"current"}
      [] dir = venturesDirectory -> {"title"}

\* The headers that hold every required key.
CompleteHeaders(dir) == {h \in HeadersOf(dir) : RequiredKeys(dir) \subseteq DOMAIN h}

\* The headers of the files the pages are asked for: the fields the pages
\* and the filters read, each present or not.
PagePostHeaders ==
    {Merge([date |-> 1], Merge(a, Merge(t, c))) :
        a \in OptionalField("author", {<<"A">>}),
        t \in OptionalField("tags", {<< <<"A", "I">> >>}),
        c \in OptionalField("category", {<<"A", "I">>, <<"a", "i">>})}

PageVentureHeaders ==
    {Merge([title |-> "t"], Merge(st, te)) :
        st \in OptionalField("status", {"live", "archived"}),
        te \in OptionalField("technologies", {<<"ts">>})}

\* The headers of the posts of the blog pages: with or without a date,
\* marked unpublished or not; one header lacks the author the page reads.
BlogPostHeaders ==
    {Merge([author |-> <<"A">>, tags |-> << <<"A", "I">> >>], Merge(d, p)) :
        d \in OptionalField("date", Dates),
        p \in OptionalField("published", {FALSE})}
    \cup {[date |-> 1, published |-> FALSE, tags |-> << <<"A", "I">> >>]}

\* The headers of the ventures of the home page: featured is true or
\* absent; one header lacks the status VentureCard reads.
HomeVentureHeaders ==
    {Merge([title |-> "t", status |-> "live", technologies |-> <<"ts">>], f) :
        f \in OptionalField("featured", {TRUE})}
    \cup {[title |-> "t", technologies |-> <<"ts">>, featured |-> TRUE]}

(***************************************************************************)
(* The files a directory may hold: a file that is not .mdx, an .mdx file   *)
(* that cannot be read, one whose header does not parse, and one with a    *)
(* header out of headers.                                                  *)
(***************************************************************************)
FileBodies(headers) ==
    {[ext |-> ".md", readable |-> TRUE, wellFormed |-> TRUE, data |-> <<>>],
     [ext |-> ".mdx", readable |-> FALSE, wellFormed |-> TRUE, data |-> <<>>],
     [ext |-> ".mdx", readable |-> TRUE, wellFormed |-> FALSE, data |-> <<>>]}
    \cup {[ext |-> ".mdx", readable |-> TRUE, wellFormed |-> TRUE, data |-> h] :
             h \in headers}

FileAt(i, body) ==
    [name |-> <<Stems[i], body.ext>>, readable |-> body.readable,
     wellFormed |-> body.wellFormed, data |-> body.data]

\* Listings of .mdx files that all parse.
ParsedListings(headers, maxFiles) ==
    UNION {{[i \in 1..n |->
                FileAt(i, [ext |-> ".mdx", readable |-> TRUE,
                           wellFormed |-> TRUE, data |-> h[i]])] :
               h \in [1..n -> headers]} : n \in 1..maxFiles}

DirectoryListings(headers, maxFiles) ==
    UNION {{[i \in 1..n |-> FileAt(i, bodies[i])] :
               bodies \in [1..n -> FileBodies(headers)]} : n \in 1..maxFiles}

(***************************************************************************)
(* The fs module and gray-matter, as the loaders use them.                 *)
(***************************************************************************)
existsSync(dir) == dirExists[dir]

\* fs.mkdirSync(dir, { recursive: true }): the new value of dirExists
mkdirSync(dir) == [dirExists EXCEPT ![dir] = TRUE]

readdirSync(dir) ==
    IF dirExists[dir]
    THEN Return([i \in 1..Len(files[dir]) |-> files[dir][i].name])
    ELSE Throw

readFileSync(dir, fileName) ==
    LET hits == {i \in 1..Len(files[dir]) : files[dir][i].name = fileName}
    IN  IF ~dirExists[dir] \/ hits = {} THEN Throw
        ELSE LET file == files[dir][CHOOSE i \in hits : TRUE]
             IN  IF file.readable THEN Return(file) ELSE Throw

\* matter(fileContents): throws when the header does not parse
matter(fileContents) ==
    IF fileContents.wellFormed THEN Return([data |-> fileContents.data])
    ELSE Throw

(***************************************************************************)
(* The comparators handed to Array.prototype.sort.                         *)
(***************************************************************************)
DefaultOrder == 999

\* A slip: a.frontmatter.order ?? 0, which puts a venture without order first.
OrderOrZero(venture) ==
    IF Has(venture.frontmatter, "order") THEN venture.frontmatter.order ELSE 0

\* a.frontmatter.order ?? 999
OrderOrDefault(venture) ==
    IF Has(venture.frontmatter, "order") THEN venture.frontmatter.order
    ELSE DefaultOrder

VentureComparator(a, b) == Num(OrderOrDefault(a) - OrderOrDefault(b))

IsCurrent(experience) ==
    Has(experience.frontmatter, "current") /\ experience.frontmatter.current

ExperienceComparator(a, b) ==
    IF Has(a.frontmatter, "order") /\ Has(b.frontmatter, "order")
    THEN Num(a.frontmatter.order - b.frontmatter.order)
    ELSE IF IsCurrent(a) /\ ~IsCurrent(b) THEN Num(-1)
    ELSE IF ~IsCurrent(a) /\ IsCurrent(b) THEN Num(1)
    ELSE Num(0)

\* new Date(post.frontmatter.date).getTime()
GetTime(post) ==
    IF Has(post.frontmatter, "date") THEN Num(post.frontmatter.date) ELSE NaN

PostComparator(a, b) == Minus(GetTime(b), GetTime(a))

CallComparator(comparefn, a, b) ==
    CASE comparefn = "ventures" -> VentureComparator(a, b)
      [] comparefn = "experiences" -> ExperienceComparator(a, b)
      [] comparefn = "posts" -> PostComparator(a, b)

(***************************************************************************)
(* Array.prototype.sort as V8 runs it on an array of fewer than 64         *)
(* elements: the first run is counted (and reversed when it descends), the *)
(* remaining elements are placed by binary insertion.  A comparator result *)
(* of NaN counts as 0.                                                     *)
(***************************************************************************)
SortCompare(comparefn, x, y) ==
    LET v == CallComparator(comparefn, x, y)
    IN  IF v.nan THEN 0 ELSE v.num

Reverse(s) == [i \in 1..Len(s) |-> s[Len(s) + 1 - i]]

CountAndMakeRun(array, comparefn) ==
    LET n == Len(array)
        isDescending == SortCompare(comparefn, array[2], array[1]) < 0
        RECURSIVE Extend(_)
        Extend(idx) ==
            IF idx > n THEN n
            ELSE LET order == SortCompare(comparefn, array[idx], array[idx - 1])
                 IN  IF (isDescending /\ order >= 0) \/ (~isDescending /\ order < 0)
                     THEN idx - 1
                     ELSE Extend(idx + 1)
        runLength == Extend(3)
    IN  [array |-> IF isDescending
                   THEN Reverse(SubSeq(array, 1, runLength))
                        \o SubSeq(array, runLength + 1, n)
                   ELSE array,
         runLength |-> runLength]

BinaryInsertionSort(workArray, startArg, comparefn) ==
    LET n == Len(workArray)
        RECURSIVE Search(_, _, _, _)
        Search(array, pivot, left, right) ==
            IF left < right
            THEN LET mid == left + ((right - left) \div 2)
                 IN  IF SortCompare(comparefn, pivot, array[mid]) < 0
                     THEN Search(array, pivot, left, mid)
                     ELSE Search(array, pivot, mid + 1, right)
            ELSE left
        RECURSIVE Place(_, _)
        Place(array, start) ==
            IF start > n THEN array
            ELSE LET pivot == array[start]
                     left == Search(array, pivot, 1, start)
                 IN  Place(SubSeq(array, 1, left - 1) \o <<pivot>>
                           \o SubSeq(array, left, start - 1)
                           \o SubSeq(array, start + 1, n),
                           start + 1)
    IN  Place(workArray, startArg + 1)

ArraySort(array, comparefn) ==
    IF Len(array) < 2 THEN array
    ELSE LET run == CountAndMakeRun(array, comparefn)
         IN  BinaryInsertionSort(run.array, run.runLength, comparefn)

(***************************************************************************)
(* lib/ventures.ts                                                         *)
(***************************************************************************)
\* fileNames.filter(endsWith(".mdx")).map(replace(/\.mdx$/, ""))
MdxSlugs(fileNames) ==
    LET kept == FilterSeq(fileNames,
                    [i \in 1..Len(fileNames) |-> EndsWithMdx(fileNames[i])])
    IN  [i \in 1..Len(kept) |-> StripMdx(kept[i])]

NotNull(loaded) ==
    FilterSeq(loaded, [i \in 1..Len(loaded) |-> loaded[i] # Null])

getAllVentureSlugs ==
    IF ~existsSync(venturesDirectory) THEN Return(<<>>)
    ELSE LET fileNames == readdirSync(venturesDirectory)
         IN  IF fileNames.threw THEN Throw
             ELSE Return(MdxSlugs(fileNames.value))

getVentureBySlug(slug) ==
    LET fileContents == readFileSync(venturesDirectory, MdxPath(slug))
    IN  IF fileContents.threw THEN Return(Null)
        ELSE LET parsed == matter(fileContents.value)
             IN  IF parsed.threw THEN Return(Null)
                 ELSE Return([slug |-> slug, frontmatter |-> parsed.value.data])

getAllVentures ==
    LET slugs == getAllVentureSlugs
    IN  IF slugs.threw THEN Throw
        ELSE LET loaded == [i \in 1..Len(slugs.value) |->
                               getVentureBySlug(slugs.value[i])]
             IN  IF \E i \in 1..Len(loaded) : loaded[i].threw THEN Throw
                 ELSE Return(ArraySort(
                         NotNull([i \in 1..Len(loaded) |-> loaded[i].value]),
                         "ventures"))

\* A slip: featured !== false, which also keeps a venture without the field.
FeaturedNotFalse(venture) ==
    ~(Has(venture.frontmatter, "featured") /\ venture.frontmatter.featured = FALSE)

IsFeatured(venture) ==
    Has(venture.frontmatter, "featured") /\ venture.frontmatter.featured = TRUE

getFeaturedVentures ==
    LET ventures == getAllVentures
    IN  IF ventures.threw THEN Throw
        ELSE Return(FilterSeq(ventures.value,
                 [i \in 1..Len(ventures.value) |-> IsFeatured(ventures.value[i])]))

(***************************************************************************)
(* lib/experiences.ts                                                      *)
(***************************************************************************)
\* A slip: the listing without the existsSync guard.
getAllExperienceSlugsUnguarded ==
    LET fileNames == readdirSync(experiencesDirectory)
    IN  IF fileNames.threw THEN Throw
        ELSE Return(MdxSlugs(fileNames.value))

getAllExperienceSlugs ==
    IF ~existsSync(experiencesDirectory) THEN Return(<<>>)
    ELSE LET fileNames == readdirSync(experiencesDirectory)
         IN  IF fileNames.threw THEN Throw
             ELSE Return(MdxSlugs(fileNames.value))

\* A slip: the body of getExperienceBySlug without its try/catch.
getExperienceBySlugUncaught(slug) ==
    LET fileContents == readFileSync(experiencesDirectory, MdxPath(slug))
    IN  IF fileContents.threw THEN Throw
        ELSE LET parsed == matter(fileContents.value)
             IN  IF parsed.threw THEN Throw
                 ELSE Return([slug |-> slug, frontmatter |-> parsed.value.data])

getExperienceBySlug(slug) ==
    LET fileContents == readFileSync(experiencesDirectory, MdxPath(slug))
    IN  IF fileContents.threw THEN Return(Null)
        ELSE LET parsed == matter(fileContents.value)
             IN  IF parsed.threw THEN Return(Null)
                 ELSE Return([slug |-> slug, frontmatter |-> parsed.value.data])

getAllExperiences ==
    LET slugs == getAllExperienceSlugs
    IN  IF slugs.threw THEN Throw
        ELSE LET loaded == [i \in 1..Len(slugs.value) |->
                               getExperienceBySlug(slugs.value[i])]
             IN  IF \E i \in 1..Len(loaded) : loaded[i].threw THEN Throw
                 ELSE Return(ArraySort(
                         NotNull([i \in 1..Len(loaded) |-> loaded[i].value]),
                         "experiences"))

(***************************************************************************)
(* lib/mdx.ts                                                              *)
(***************************************************************************)
\* The directory getAllPostSlugs leaves behind: it creates a missing one.
PostsDirAfterListing ==
    IF ~existsSync(POSTS_PATH) THEN mkdirSync(POSTS_PATH) ELSE dirExists

\* A slip: the directory listed without the existsSync guard.
getAllPostSlugsUnguarded ==
    LET fileNames == readdirSync(POSTS_PATH)
    IN  IF fileNames.threw THEN Throw
        ELSE Return(MdxSlugs(fileNames.value))

getAllPostSlugs ==
    IF ~existsSync(POSTS_PATH) THEN Return(<<>>)
    ELSE LET fileNames == readdirSync(POSTS_PATH)
         IN  IF fileNames.threw THEN Throw
             ELSE Return(MdxSlugs(fileNames.value))

\* A slip: a post marked unpublished is not loaded.
getPostBySlugPublishedOnly(slug) ==
    LET fileContents == readFileSync(POSTS_PATH, MdxPath(slug))
    IN  IF fileContents.threw THEN Return(Null)
        ELSE LET parsed == matter(fileContents.value)
             IN  IF parsed.threw THEN Return(Null)
                 ELSE IF /\ Has(parsed.value.data, "published")
                         /\ parsed.value.data.published = FALSE
                 THEN Return(Null)
                 ELSE Return([slug |-> slug, frontmatter |-> parsed.value.data])

getPostBySlug(slug) ==
    LET fileContents == readFileSync(POSTS_PATH, MdxPath(slug))
    IN  IF fileContents.threw THEN Return(Null)
        ELSE LET parsed == matter(fileContents.value)
             IN  IF parsed.threw THEN Return(Null)
                 ELSE Return([slug |-> slug, frontmatter |-> parsed.value.data])

\* A slip: published === true, which drops a post without the field.
PublishedIsTrue(post) ==
    Has(post.frontmatter, "published") /\ post.frontmatter.published = TRUE

\* post.frontmatter.published !== false
NotUnpublished(post) ==
    ~(Has(post.frontmatter, "published") /\ post.frontmatter.published = FALSE)

getAllPosts(includeUnpublished) ==
    LET slugs == getAllPostSlugs
    IN  IF slugs.threw THEN Throw
        ELSE LET loaded == [i \in 1..Len(slugs.value) |->
                               getPostBySlug(slugs.value[i])]
                 posts == NotNull([i \in 1..Len(loaded) |-> loaded[i].value])
             IN  IF \E i \in 1..Len(loaded) : loaded[i].threw THEN Throw
                 ELSE Return(ArraySort(
                         FilterSeq(posts, [i \in 1..Len(posts) |->
                             includeUnpublished \/ NotUnpublished(posts[i])]),
                         "posts"))

(***************************************************************************)
(* Strings are sequences of one-character strings.                         *)
(***************************************************************************)
LowerOf(c) ==
    CASE c = "A" -> "a"
      [] c = "I" -> "i"
      [] OTHER -> c

toLowerCase(str) == [i \in 1..Len(str) |-> LowerOf(str[i])]

\* \s of a regular expression, and the line terminators "." does not match
IsWhitespace(c) == c \in {" ", "\n"}
IsLineTerminator(c) == c = "\n"

\* [a-z0-9]
LowerAlnum ==
    {"a", "b", "c", "d", "e", "f", "g", "h", "i", "j", "k", "l", "m",
     "n", "o", "p", "q", "r", "s", "t", "u", "v", "w", "x", "y", "z",
     "0", "1", "2", "3", "4", "5", "6", "7", "8", "9"}

\* str.split(/\s+/): the pieces between the separators, which are the
\* maximal runs of whitespace; a separator at the start or at the end
\* leaves an empty piece beside it, and the empty string is one empty piece.
split(str) ==
    LET n == Len(str)
        firsts == {i \in 1..n : IsWhitespace(str[i])
                                 /\ (i = 1 \/ ~IsWhitespace(str[i - 1]))}
        lasts == {i \in 1..n : IsWhitespace(str[i])
                                /\ (i = n \/ ~IsWhitespace(str[i + 1]))}
        \* the separators that start at or before i, and that end there
        startedBy == [i \in 1..n |-> Cardinality({j \in firsts : j <= i})]
        endedBy == [i \in 1..n |-> Cardinality({j \in lasts : j <= i})]
        separators == Cardinality(firsts)
    IN  [k \in 1..(separators + 1) |->
            SubSeq(str,
                   IF k = 1 THEN 1
                   ELSE 1 + CHOOSE i \in lasts : endedBy[i] = k - 1,
                   IF k = separators + 1 THEN n
                   ELSE (CHOOSE i \in firsts : startedBy[i] = k) - 1)]

\* str.trim()
trim(str) ==
    LET kept == {i \in 1..Len(str) : ~IsWhitespace(str[i])}
    IN  IF kept = {} THEN <<>>
        ELSE SubSeq(str, CHOOSE i \in kept : \A j \in kept : i <= j,
                         CHOOSE i \in kept : \A j \in kept : i >= j)

\* str.replace(/[^a-z0-9]+/g, "-")
ReplaceNonAlnumRuns(str) ==
    LET RECURSIVE Scan(_, _)
        Scan(i, inRun) ==
            IF i > Len(str) THEN <<>>
            ELSE IF str[i] \in LowerAlnum THEN <<str[i]>> \o Scan(i + 1, FALSE)
            ELSE IF inRun THEN Scan(i + 1, TRUE)
            ELSE <<"-">> \o Scan(i + 1, TRUE)
    IN  Scan(1, FALSE)

\* A slip: /^-/ alone, which leaves a '-' at the end.
StripLeadingDash(str) ==
    SubSeq(str, IF Len(str) > 0 /\ str[1] = "-" THEN 2 ELSE 1, Len(str))

\* str.replace(/^-|-$/g, ""): one '-' at the start and one at the end
StripEdgeDashes(str) ==
    LET first == IF Len(str) > 0 /\ str[1] = "-" THEN 2 ELSE 1
        last == IF Len(str) >= first /\ str[Len(str)] = "-"
                THEN Len(str) - 1 ELSE Len(str)
    IN  SubSeq(str, first, last)

(***************************************************************************)
(* lib/mdx.ts: calculateReadingTime.  The string `${minutes} min read` is  *)
(* the pair of the number and the text after it.                           *)
(***************************************************************************)
wordsPerMinute == 200

\* Math.ceil(wordCount / wordsPerMinute), for integers
CeilDiv(a, b) == (a + b - 1) \div b

calculateReadingTime(str) ==
    LET wordCount == Len(split(str))
        minutes == CeilDiv(wordCount, wordsPerMinute)
    IN  <<minutes, " min read">>

(***************************************************************************)
(* app/blog/[slug]/page.tsx: extractTableOfContents.                       *)
(*                                                                         *)
(* /^(#{2,3})\s+(.+)$/gm matches at the start p of a line when two or      *)
(* three '#' stand there with whitespace after them (a fourth '#' is not   *)
(* whitespace, so a longer run never matches); \s+ then takes as much of   *)
(* the whitespace, line breaks included, as leaves a character other than  *)
(* a line break for (.+), which runs to the end of that line.  exec() goes *)
(* on from the end of the match.                                           *)
(***************************************************************************)
HeadingId(title) ==
    StripEdgeDashes(ReplaceNonAlnumRuns(toLowerCase(title)))

extractTableOfContents(str) ==
    LET n == Len(str)
        AtLineStart(p) == p = 1 \/ IsLineTerminator(str[p - 1])
        RECURSIVE RunOf(_, _)
        \* the length of the run of characters of class at p
        RunOf(p, class) ==
            IF p <= n /\ str[p] \in class THEN 1 + RunOf(p + 1, class) ELSE 0
        RECURSIVE EndOfLine(_)
        EndOfLine(p) ==
            IF p > n \/ IsLineTerminator(str[p]) THEN p ELSE EndOfLine(p + 1)
        \* where (.+) starts for a match at p, 0 when there is no match
        TitleStart(p) ==
            LET hashes == RunOf(p, {"#"})
                spaces == RunOf(p + hashes, {" ", "\n"})
                starts == {q \in (p + hashes + 1)..(p + hashes + spaces) :
                              q <= n /\ ~IsLineTerminator(str[q])}
            IN  IF hashes \in {2, 3} /\ starts # {}
                THEN CHOOSE q \in starts : \A r \in starts : r <= q
                ELSE 0
        RECURSIVE Exec(_)
        Exec(lastIndex) ==
            LET hits == {p \in lastIndex..n : AtLineStart(p) /\ TitleStart(p) > 0}
            IN  IF hits = {} THEN <<>>
                ELSE LET p == CHOOSE q \in hits : \A r \in hits : q <= r
                         level == RunOf(p, {"#"})
                         title == trim(SubSeq(str, TitleStart(p),
                                              EndOfLine(TitleStart(p)) - 1))
                     IN  <<[id |-> HeadingId(title), title |-> title,
                            level |-> level]>>
                         \o Exec(EndOfLine(TitleStart(p)))
    IN  Exec(1)

(***************************************************************************)
(* lib/mdx.ts: the filters over getAllPosts().                             *)
(***************************************************************************)
\* post.frontmatter.category.toLowerCase() throws a TypeError on a post
\* without category.
getPostsByCategory(category) ==
    LET posts == getAllPosts(FALSE)
    IN  IF posts.threw THEN Throw
        ELSE IF \E i \in 1..Len(posts.value) :
                    ~Has(posts.value[i].frontmatter, "category")
        THEN Throw
        ELSE Return(FilterSeq(posts.value, [i \in 1..Len(posts.value) |->
                 toLowerCase(posts.value[i].frontmatter.category)
                     = toLowerCase(category)]))

\* post.frontmatter.tags.some(...) throws a TypeError on a post without tags.
getPostsByTag(tag) ==
    LET posts == getAllPosts(FALSE)
    IN  IF posts.threw THEN Throw
        ELSE IF \E i \in 1..Len(posts.value) :
                    ~Has(posts.value[i].frontmatter, "tags")
        THEN Throw
        ELSE Return(FilterSeq(posts.value, [i \in 1..Len(posts.value) |->
                 \E k \in 1..Len(posts.value[i].frontmatter.tags) :
                     toLowerCase(posts.value[i].frontmatter.tags[k])
                         = toLowerCase(tag)]))

(***************************************************************************)
(* The pages app/projects/[slug]/page.tsx and app/blog/[slug]/page.tsx.    *)
(* A request ends in the not-found page (notFound() was called), in the    *)
(* rendered page, or in an exception.  The body of a file is taken to be   *)
(* MDX that compiles.                                                      *)
(***************************************************************************)
statusConfig ==
    [building |-> [variant |-> "warning", label |-> "Building"],
     concept |-> [variant |-> "primary", label |-> "Concept"],
     research |-> [variant |-> "default", label |-> "Research"],
     live |-> [variant |-> "success", label |-> "Live"]]

NotFound == [threw |-> FALSE, outcome |-> "notFound"]
Rendered == [threw |-> FALSE, outcome |-> "rendered"]
TypeError == [threw |-> TRUE, outcome |-> "error"]

\* A slip: the page without its "if (!venture) notFound()".
ProjectPageUnchecked(slug) ==
    LET venture == getVentureBySlug(slug).value
    IN  IF venture = Null THEN TypeError
        ELSE IF ~(Has(venture.frontmatter, "status")
                    /\ venture.frontmatter.status \in DOMAIN statusConfig)
        THEN TypeError
        ELSE IF ~Has(venture.frontmatter, "technologies") THEN TypeError
        ELSE Rendered

\* statusInfo.variant throws when statusConfig has no entry for the status;
\* venture.frontmatter.technologies.map throws without technologies.
ProjectPage(slug) ==
    LET venture == getVentureBySlug(slug).value
    IN  IF venture = Null THEN NotFound
        ELSE IF ~(Has(venture.frontmatter, "status")
                    /\ venture.frontmatter.status \in DOMAIN statusConfig)
        THEN TypeError
        ELSE IF ~Has(venture.frontmatter, "technologies") THEN TypeError
        ELSE Rendered

\* generateStaticParams of the blog: a page for every slug listed
generateStaticParams == getAllPostSlugs

\* A slip: previous and next the other way round.
AdjacentSwapped(allPosts, currentSlug) ==
    LET hits == {i \in 1..Len(allPosts) : allPosts[i].slug = currentSlug}
        currentIndex == IF hits = {} THEN -1
                        ELSE (CHOOSE i \in hits : \A j \in hits : i <= j) - 1
    IN  [threw |-> FALSE,
         next |-> IF currentIndex < Len(allPosts) - 1
                  THEN allPosts[currentIndex + 2] ELSE Null,
         previous |-> IF currentIndex > 0 THEN allPosts[currentIndex] ELSE Null]

\* The posts beside currentSlug in allPosts.  findIndex gives the 0-based
\* index of the first post of that slug, or -1; allPosts[k] of the code is
\* allPosts[k + 1] here.
Adjacent(allPosts, currentSlug) ==
    LET hits == {i \in 1..Len(allPosts) : allPosts[i].slug = currentSlug}
        currentIndex == IF hits = {} THEN -1
                        ELSE (CHOOSE i \in hits : \A j \in hits : i <= j) - 1
    IN  [threw |-> FALSE,
         previous |-> IF currentIndex < Len(allPosts) - 1
                      THEN allPosts[currentIndex + 2] ELSE Null,
         next |-> IF currentIndex > 0 THEN allPosts[currentIndex] ELSE Null]

getAdjacentPosts(currentSlug) ==
    LET allPosts == getAllPosts(FALSE)
    IN  IF allPosts.threw THEN [threw |-> TRUE, previous |-> Null, next |-> Null]
        ELSE Adjacent(allPosts.value, currentSlug)

\* frontmatter.author.charAt(0) and frontmatter.tags.map throw when the
\* field is absent; getAdjacentPosts calls getAllPosts().
BlogPostPage(slug) ==
    LET post == getPostBySlug(slug).value
    IN  IF post = Null THEN NotFound
        ELSE IF getAllPosts(FALSE).threw THEN TypeError
        ELSE IF ~Has(post.frontmatter, "author") THEN TypeError
        ELSE IF ~Has(post.frontmatter, "tags") THEN TypeError
        ELSE Rendered

(***************************************************************************)
(* The sections of the home page: the server component loads the records   *)
(* and hands them to its client component.  A section gives the ids or the *)
(* records it shows, whether it shows the "View all" link, and the number  *)
(* the link names.                                                         *)
(***************************************************************************)
Min(a, b) == IF a <= b THEN a ELSE b

\* The props of a card: the fields convertMdxVenture copies.
convertMdxVenture(mdxVenture) ==
    [id |-> mdxVenture.slug,
     props |-> [k \in DOMAIN mdxVenture.frontmatter
                        \cap {"title", "status", "technologies"} |->
                    mdxVenture.frontmatter[k]]]

\* statusInfo.variant and venture.technologies.slice throw when the status
\* has no entry of statusConfig or technologies is absent.
VentureCard(venture) ==
    IF ~(Has(venture.props, "status")
           /\ venture.props.status \in DOMAIN statusConfig)
    THEN TypeError
    ELSE IF ~Has(venture.props, "technologies") THEN TypeError
    ELSE Rendered

VenturesShown == 6

\* ventures.slice(0, 6), a card for each, the link when ventures.length > 0
VenturesSectionClient(ventures) ==
    LET featuredVentures == SubSeq(ventures, 1, Min(VenturesShown, Len(ventures)))
    IN  [threw |-> \E i \in 1..Len(featuredVentures) :
                      VentureCard(featuredVentures[i]).threw,
         shown |-> [i \in 1..Len(featuredVentures) |-> featuredVentures[i].id],
         viewAll |-> Len(ventures) > 0,
         total |-> Len(ventures)]

VenturesSection ==
    LET mdxVentures == getAllVentures
    IN  IF mdxVentures.threw
        THEN [threw |-> TRUE, shown |-> <<>>, viewAll |-> FALSE, total |-> 0]
        ELSE VenturesSectionClient(
                 [i \in 1..Len(mdxVentures.value) |->
                     convertMdxVenture(mdxVentures.value[i])])

RecentPosts == 3

\* The client shows the posts it is given, and the link when totalPosts > 3.
BlogSectionClient(posts, totalPosts) ==
    [threw |-> FALSE, records |-> posts, viewAll |-> totalPosts > 3,
     total |-> totalPosts]

\* allPosts.slice(0, 3) and allPosts.length
BlogSection ==
    LET allPosts == getAllPosts(FALSE)
    IN  IF allPosts.threw
        THEN [threw |-> TRUE, records |-> <<>>, viewAll |-> FALSE, total |-> 0]
        ELSE BlogSectionClient(
                 SubSeq(allPosts.value, 1, Min(RecentPosts, Len(allPosts.value))),
                 Len(allPosts.value))

(***************************************************************************)
(* The calls.  Each records its outcome in result.                         *)
(***************************************************************************)
\* Before any call.  A call fills in its name, its argument, whether it
\* threw, and what it returned: slugs (a slug lister), record (get*BySlug,
\* Null when it returned null) or records (getAll*, getFeaturedVentures).
\* A filter fills in its category or tag, a page request its outcome.
\* getAll* fills in calls: 2 when the call before it was the same call,
\* 1 when it was not.
NoCall ==
    [op |-> "none", slug |-> <<>>, includeUnpublished |-> FALSE,
     threw |-> FALSE, slugs |-> <<>>, record |-> Null, records |-> <<>>,
     category |-> <<>>, tag |-> <<>>, outcome |-> "none", calls |-> 0,
     shown |-> <<>>, viewAll |-> FALSE, total |-> 0,
     previous |-> Null, next |-> Null]

\* The slugs a caller asks for: the stem of a file of the directory, or a
\* slug that no file has.
SlugArgs(dir) == {<<Stems[i]>> : i \in 1..Len(files[dir])} \cup {<<NoFile>>}

GetAllVentureSlugs ==
    /\ result' = [NoCall EXCEPT !.op = "getAllVentureSlugs",
                                !.threw = getAllVentureSlugs.threw,
                                !.slugs = getAllVentureSlugs.value]
    /\ UNCHANGED <<dirExists, files, content, output, view>>

GetVentureBySlug ==
    \E slug \in SlugArgs(venturesDirectory) :
        /\ result' = [NoCall EXCEPT !.op = "getVentureBySlug",
                                    !.slug = slug,
                                    !.threw = getVentureBySlug(slug).threw,
                                    !.record = getVentureBySlug(slug).value]
        /\ UNCHANGED <<dirExists, files, content, output, view>>

GetAllVentures ==
    /\ result' = [NoCall EXCEPT !.op = "getAllVentures",
                                !.calls = IF result.op = "getAllVentures"
                                          THEN 2 ELSE 1,
                                !.threw = getAllVentures.threw,
                                !.records = getAllVentures.value]
    /\ UNCHANGED <<dirExists, files, content, output, view>>

GetFeaturedVentures ==
    /\ result' = [NoCall EXCEPT !.op = "getFeaturedVentures",
                                !.threw = getFeaturedVentures.threw,
                                !.records = getFeaturedVentures.value]
    /\ UNCHANGED <<dirExists, files, content, output, view>>

GetAllExperienceSlugs ==
    /\ result' = [NoCall EXCEPT !.op = "getAllExperienceSlugs",
                                !.threw = getAllExperienceSlugs.threw,
                                !.slugs = getAllExperienceSlugs.value]
    /\ UNCHANGED <<dirExists, files, content, output, view>>

GetExperienceBySlug ==
    \E slug \in SlugArgs(experiencesDirectory) :
        /\ result' = [NoCall EXCEPT !.op = "getExperienceBySlug",
                                    !.slug = slug,
                                    !.threw = getExperienceBySlug(slug).threw,
                                    !.record = getExperienceBySlug(slug).value]
        /\ UNCHANGED <<dirExists, files, content, output, view>>

GetAllExperiences ==
    /\ result' = [NoCall EXCEPT !.op = "getAllExperiences",
                                !.calls = IF result.op = "getAllExperiences"
                                          THEN 2 ELSE 1,
                                !.threw = getAllExperiences.threw,
                                !.records = getAllExperiences.value]
    /\ UNCHANGED <<dirExists, files, content, output, view>>

GetAllPostSlugs ==
    /\ result' = [NoCall EXCEPT !.op = "getAllPostSlugs",
                                !.threw = getAllPostSlugs.threw,
                                !.slugs = getAllPostSlugs.value]
    /\ dirExists' = PostsDirAfterListing
    /\ UNCHANGED <<files, content, output, view>>

GetPostBySlug ==
    \E slug \in SlugArgs(POSTS_PATH) :
        /\ result' = [NoCall EXCEPT !.op = "getPostBySlug",
                                    !.slug = slug,
                                    !.threw = getPostBySlug(slug).threw,
                                    !.record = getPostBySlug(slug).value]
        /\ UNCHANGED <<dirExists, files, content, output, view>>

GetAllPosts ==
    \E includeUnpublished \in BOOLEAN :
        /\ result' = [NoCall EXCEPT !.op = "getAllPosts",
                                    !.includeUnpublished = includeUnpublished,
                                    !.calls =
                                        IF /\ result.op = "getAllPosts"
                                           /\ result.includeUnpublished
                                                  = includeUnpublished
                                        THEN 2 ELSE 1,
                                    !.threw = getAllPosts(includeUnpublished).threw,
                                    !.records = getAllPosts(includeUnpublished).value]
        /\ dirExists' = PostsDirAfterListing
        /\ UNCHANGED <<files, content, output, view>>

\* The categories and tags a caller filters by.
FilterArgs == {<<"A", "I">>, <<"a", "i">>, <<"w", "e", "b">>}

GetPostsByCategory ==
    \E category \in FilterArgs :
        /\ result' = [NoCall EXCEPT !.op = "getPostsByCategory",
                                    !.category = category,
                                    !.threw = getPostsByCategory(category).threw,
                                    !.records = getPostsByCategory(category).value]
        /\ dirExists' = PostsDirAfterListing
        /\ UNCHANGED <<files, content, output, view>>

GetPostsByTag ==
    \E tag \in FilterArgs :
        /\ result' = [NoCall EXCEPT !.op = "getPostsByTag",
                                    !.tag = tag,
                                    !.threw = getPostsByTag(tag).threw,
                                    !.records = getPostsByTag(tag).value]
        /\ dirExists' = PostsDirAfterListing
        /\ UNCHANGED <<files, content, output, view>>

RenderProjectPage ==
    \E slug \in SlugArgs(venturesDirectory) :
        /\ result' = [NoCall EXCEPT !.op = "ProjectPage",
                                    !.slug = slug,
                                    !.threw = ProjectPage(slug).threw,
                                    !.outcome = ProjectPage(slug).outcome]
        /\ UNCHANGED <<dirExists, files, content, output, view>>

RenderBlogPostPage ==
    \E slug \in SlugArgs(POSTS_PATH) :
        /\ result' = [NoCall EXCEPT !.op = "BlogPostPage",
                                    !.slug = slug,
                                    !.threw = BlogPostPage(slug).threw,
                                    !.outcome = BlogPostPage(slug).outcome]
        /\ UNCHANGED <<dirExists, files, content, output, view>>

RenderVenturesSection ==
    /\ \E section \in {VenturesSection} :
          result' = [NoCall EXCEPT !.op = "VenturesSection",
                                  !.threw = section.threw,
                                  !.shown = section.shown,
                                  !.viewAll = section.viewAll,
                                  !.total = section.total]
    /\ UNCHANGED <<dirExists, files, content, output, view>>

RenderBlogSection ==
    /\ \E section \in {BlogSection} :
          result' = [NoCall EXCEPT !.op = "BlogSection",
                                  !.threw = section.threw,
                                  !.records = section.records,
                                  !.viewAll = section.viewAll,
                                  !.total = section.total]
    /\ dirExists' = PostsDirAfterListing
    /\ UNCHANGED <<files, content, output, view>>

GenerateStaticParams ==
    /\ result' = [NoCall EXCEPT !.op = "generateStaticParams",
                                !.threw = generateStaticParams.threw,
                                !.slugs = generateStaticParams.value]
    /\ dirExists' = PostsDirAfterListing
    /\ UNCHANGED <<files, content, output, view>>

GetAdjacentPosts ==
    \E currentSlug \in SlugArgs(POSTS_PATH) :
        /\ \E adjacent \in {getAdjacentPosts(currentSlug)} :
              result' = [NoCall EXCEPT !.op = "getAdjacentPosts",
                                      !.slug = currentSlug,
                                      !.threw = adjacent.threw,
                                      !.previous = adjacent.previous,
                                      !.next = adjacent.next]
        /\ dirExists' = PostsDirAfterListing
        /\ UNCHANGED <<files, content, output, view>>

CalculateReadingTime ==
    /\ output' = [op |-> "calculateReadingTime",
                  readingTime |-> calculateReadingTime(content),
                  toc |-> <<>>]
    /\ UNCHANGED <<dirExists, files, result, content, view>>

ExtractTableOfContents ==
    /\ output' = [op |-> "extractTableOfContents",
                  readingTime |-> <<0, "">>,
                  toc |-> extractTableOfContents(content)]
    /\ UNCHANGED <<dirExists, files, result, content, view>>

(***************************************************************************)
(* The client components.  view holds                                      *)
(*   mounted          the components that are mounted                      *)
(*   isVisible        the sections whose isVisible state is true           *)
(*   observing        the sections whose IntersectionObserver observes     *)
(*   delivered        the section whose intersection callback ran last,    *)
(*                    and whether an entry it was given was intersecting   *)
(*   isDarkMode, mutationObserver        ContactSection's state, and       *)
(*                    whether its MutationObserver observes <html>         *)
(*   mobileMenuOpen, darkMode, isScrolled        Navigation's state        *)
(*   scrollListeners  the scroll listeners of window: of each handleScroll *)
(*                    the isScrolled its closure holds                     *)
(*   scrollY, darkClass, theme, prefersDark, bodyOverflow   the browser:   *)
(*                    window.scrollY, the class "dark" of <html>,          *)
(*                    localStorage "theme" ("none" when not set), the      *)
(*                    media query, document.body.style.overflow            *)
(*   calendlyLoaded, showSuccess, eventDetails    ContactSection's state   *)
(*                    (of eventDetails the invitee's name, "" when none)   *)
(*   widget           the colours of the url the Calendly widget was last  *)
(*                    initialised with, "none" before any initInlineWidget *)
(*   scrollTimer      whether the timer of the success effect is pending   *)
(*   search, hash     window.location: the query as <<key, value>> pairs,  *)
(*                    and the fragment                                     *)
(***************************************************************************)
PlainSections == {"hero", "ventures", "experience", "blog"}
Sections == PlainSections \cup {"contact"}
Components == Sections \cup {"navigation"}

ScrollPositions == {0, 10, 11}
Themes == {"none", "dark", "light"}

NoDelivery == [target |-> "none", isIntersecting |-> FALSE]

\* new IntersectionObserver(callback).observe(ref.current), after
\* useState(false)
ObserveSection(v, section) ==
    [v EXCEPT !.mounted = @ \cup {section},
              !.isVisible = @ \ {section},
              !.observing = @ \cup {section},
              !.delivered = NoDelivery]

\* The cleanup of the intersection effect, and the state going with the
\* component.
DisconnectSection(v, section) ==
    [v EXCEPT !.mounted = @ \ {section},
              !.isVisible = @ \ {section},
              !.observing = @ \ {section},
              !.delivered = NoDelivery]

\* A slip: the callback without observer.disconnect().
IntersectionCallbackKeepsObserving(v, section, entries) ==
    LET isIntersecting == \E i \in 1..Len(entries) : entries[i]
    IN  [v EXCEPT !.isVisible = IF isIntersecting THEN @ \cup {section} ELSE @,
                  !.delivered = [target |-> section,
                                 isIntersecting |-> isIntersecting]]

\* entries.forEach: an intersecting entry sets isVisible and disconnects.
IntersectionCallback(v, section, entries) ==
    LET isIntersecting == \E i \in 1..Len(entries) : entries[i]
    IN  [v EXCEPT !.isVisible = IF isIntersecting THEN @ \cup {section} ELSE @,
                  !.observing = IF isIntersecting THEN @ \ {section} ELSE @,
                  !.delivered = [target |-> section,
                                 isIntersecting |-> isIntersecting]]

\* The MutationObserver's callback, run when the class of <html> is set.
checkDarkMode(v) ==
    IF v.mutationObserver THEN [v EXCEPT !.isDarkMode = v.darkClass] ELSE v

\* A slip: the colours of the light theme whatever the theme.
calendlyEmbedUrlLight(isDarkMode) == "light"

\* The colours of the embed url: those of the dark or of the light theme.
calendlyEmbedUrl(isDarkMode) == IF isDarkMode THEN "dark" ELSE "light"

\* The Calendly effect, run when calendlyLoaded or the embed url changed:
\* nothing before the script has loaded, then the container is cleared and
\* Calendly.initInlineWidget is called with the url.
CalendlyEffect(v) ==
    IF ~v.calendlyLoaded \/ "contact" \notin v.mounted THEN v
    ELSE [v EXCEPT !.widget = calendlyEmbedUrl(v.isDarkMode)]

\* The class of <html> was set: the MutationObserver's callback, the render
\* and the Calendly effect.
ClassSet(v) == CalendlyEffect(checkDarkMode(v))

Searches ==
    {<<>>,
     << <<"x", "1">> >>,
     << <<"event_type_uuid", "">> >>,
     << <<"event_type_uuid", "u">>, <<"event_start_time", "t">> >>,
     << <<"event_type_uuid", "u">>, <<"invitee_first_name", "n">> >>}

Hashes == {"", "#contact"}

\* URLSearchParams.get: the value of the first pair of that key; "" also
\* stands for the null of a key that is absent, which is as falsy.
SearchParam(search, key) ==
    LET hits == {i \in 1..Len(search) : search[i][1] = key}
    IN  IF hits = {} THEN ""
        ELSE search[CHOOSE i \in hits : \A j \in hits : i <= j][2]

\* A slip: the success effect without history.replaceState.
SuccessEffectKeepsUrl(v) ==
    LET eventTypeUuid == SearchParam(v.search, "event_type_uuid")
        fullName == SearchParam(v.search, "invitee_full_name")
        inviteeName == IF fullName # "" THEN fullName
                       ELSE SearchParam(v.search, "invitee_first_name")
    IN  IF eventTypeUuid = "" THEN v
        ELSE [v EXCEPT !.showSuccess = TRUE,
                       !.eventDetails = inviteeName,
                       !.scrollTimer = TRUE]

\* The success effect: with event_type_uuid in the query the banner is
\* shown, the details are kept, the timer of the scroll is started and the
\* url becomes pathname + hash.
SuccessEffect(v) ==
    LET eventTypeUuid == SearchParam(v.search, "event_type_uuid")
        fullName == SearchParam(v.search, "invitee_full_name")
        inviteeName == IF fullName # "" THEN fullName
                       ELSE SearchParam(v.search, "invitee_first_name")
    IN  IF eventTypeUuid = "" THEN v
        ELSE [v EXCEPT !.showSuccess = TRUE,
                       !.eventDetails = inviteeName,
                       !.scrollTimer = TRUE,
                       !.search = <<>>]

threshold == 10

\* A slip: the threshold itself counts as scrolled.
handleScrollFromThreshold(closure, scrollTop, state) ==
    IF scrollTop >= threshold /\ ~closure THEN TRUE
    ELSE IF scrollTop < threshold /\ closure THEN FALSE
    ELSE state

\* handleScroll with isScrolled as its closure holds it: the state after it
handleScroll(closure, scrollTop, state) ==
    IF scrollTop > threshold /\ ~closure THEN TRUE
    ELSE IF scrollTop <= threshold /\ closure THEN FALSE
    ELSE state

\* A slip: a cleanup that removes nothing.
KeepListener(listeners, closure) == listeners

\* window.removeEventListener("scroll", handleScroll): the listener the
\* effect run with this closure added
RemoveListener(listeners, closure) ==
    LET hits == {i \in 1..Len(listeners) : listeners[i] = closure}
    IN  IF hits = {} THEN listeners
        ELSE LET last == CHOOSE i \in hits : \A j \in hits : j <= i
             IN  SubSeq(listeners, 1, last - 1)
                 \o SubSeq(listeners, last + 1, Len(listeners))

\* The scroll effect, run with isScrolled: the first handleScroll(), then
\* addEventListener; when the first check changed the state, the render
\* that follows cleans the effect up and runs it again.
RECURSIVE ScrollEffect(_, _, _)
ScrollEffect(listeners, isScrolled, scrollTop) ==
    LET checked == handleScroll(isScrolled, scrollTop, isScrolled)
        added == Append(listeners, isScrolled)
    IN  IF checked = isScrolled
        THEN [scrollListeners |-> added, isScrolled |-> isScrolled]
        ELSE ScrollEffect(RemoveListener(added, isScrolled), checked, scrollTop)

\* A scroll event: every listener runs, in the order it was added.
RECURSIVE DispatchScroll(_, _, _)
DispatchScroll(listeners, scrollTop, state) ==
    IF listeners = <<>> THEN state
    ELSE DispatchScroll(Tail(listeners), scrollTop,
                        handleScroll(Head(listeners), scrollTop, state))

\* A slip: the system preference is asked first.
isDarkSystemFirst(savedTheme, prefersDark) ==
    prefersDark \/ savedTheme = "dark"

\* savedTheme === "dark" || (!savedTheme && prefersDark); "none" is the null
\* of getItem
isDark(savedTheme, prefersDark) ==
    savedTheme = "dark" \/ (savedTheme = "none" /\ prefersDark)

\* A slip: a toggle that only ever adds the class.
AfterToggleAddsOnly(v) ==
    [v EXCEPT !.darkMode = ~v.darkMode,
              !.darkClass = v.darkClass \/ ~v.darkMode,
              !.theme = IF ~v.darkMode THEN "dark" ELSE "light",
              !.delivered = NoDelivery]

\* toggleDarkMode: the state, the class of <html> and localStorage after it
AfterToggle(v) ==
    [v EXCEPT !.darkMode = ~v.darkMode,
              !.darkClass = ~v.darkMode,
              !.theme = IF ~v.darkMode THEN "dark" ELSE "light",
              !.delivered = NoDelivery]

Hrefs == {<<"#", "a">>, <<"/", "a">>, <<>>}

startsWith(str, prefix) == Len(str) >= 1 /\ str[1] = prefix

\* A slip: every link closes the menu.
AfterAnyLinkClick(v, href) ==
    [v EXCEPT !.mobileMenuOpen = FALSE,
              !.bodyOverflow = "unset",
              !.delivered = NoDelivery]

\* handleLinkClick(e, href): a link to an anchor closes the menu, and the
\* overflow effect follows; any other link is left to the browser.
AfterLinkClick(v, href) ==
    IF startsWith(href, "#")
    THEN [v EXCEPT !.mobileMenuOpen = FALSE,
                   !.bodyOverflow = "unset",
                   !.delivered = NoDelivery]
    ELSE [v EXCEPT !.delivered = NoDelivery]

MountSection ==
    \E section \in PlainSections \ view.mounted :
        /\ Cardinality(view.mounted) < MaxMounted
        /\ view' = ObserveSection(view, section)
        /\ UNCHANGED <<dirExists, files, result, content, output>>

\* ContactSection also reads the class of <html> and observes it, leaves
\* the widget alone until the script has loaded, and looks for the
\* parameters of a booking in the url.
MountContactSection ==
    /\ "contact" \notin view.mounted
    /\ Cardinality(view.mounted) < MaxMounted
    /\ view' = SuccessEffect(
                   [ObserveSection(view, "contact") EXCEPT
                       !.isDarkMode = view.darkClass,
                       !.mutationObserver = TRUE,
                       !.calendlyLoaded = FALSE,
                       !.widget = "none",
                       !.showSuccess = FALSE,
                       !.eventDetails = ""])
    /\ UNCHANGED <<dirExists, files, result, content, output>>

UnmountSection ==
    \E section \in PlainSections \cap view.mounted :
        /\ view' = DisconnectSection(view, section)
        /\ UNCHANGED <<dirExists, files, result, content, output>>

UnmountContactSection ==
    /\ "contact" \in view.mounted
    /\ view' = [DisconnectSection(view, "contact") EXCEPT
                    !.isDarkMode = FALSE,
                    !.mutationObserver = FALSE,
                    !.calendlyLoaded = FALSE,
                    !.widget = "none",
                    !.showSuccess = FALSE,
                    !.eventDetails = ""]
    /\ UNCHANGED <<dirExists, files, result, content, output>>

\* The script of Calendly has loaded: onLoad, then the Calendly effect.
ScriptLoaded ==
    /\ "contact" \in view.mounted
    /\ ~view.calendlyLoaded
    /\ view' = CalendlyEffect([view EXCEPT !.calendlyLoaded = TRUE,
                                           !.delivered = NoDelivery])
    /\ UNCHANGED <<dirExists, files, result, content, output>>

\* The button of the success banner.
DismissSuccess ==
    /\ "contact" \in view.mounted
    /\ view.showSuccess
    /\ view' = [view EXCEPT !.showSuccess = FALSE, !.delivered = NoDelivery]
    /\ UNCHANGED <<dirExists, files, result, content, output>>

\* The timer of the success effect, which unmounting does not clear:
\* sectionRef.current?.scrollIntoView, the scrolling it starts being Scroll.
ScrollTimerFires ==
    /\ view.scrollTimer
    /\ view' = [view EXCEPT !.scrollTimer = FALSE, !.delivered = NoDelivery]
    /\ UNCHANGED <<dirExists, files, result, content, output>>

\* The browser hands entries to the callback of an observer that observes.
Intersect ==
    \E section \in view.observing, n \in 1..MaxEntries :
        \E entries \in [1..n -> BOOLEAN] :
            /\ view' = IntersectionCallback(view, section, entries)
            /\ UNCHANGED <<dirExists, files, result, content, output>>

\* Navigation mounts: the scroll effect, the dark mode effect, the overflow
\* effect.
MountNavigation ==
    /\ "navigation" \notin view.mounted
    /\ Cardinality(view.mounted) < MaxMounted
    /\ LET scroll == ScrollEffect(view.scrollListeners, FALSE, view.scrollY)
           dark == isDark(view.theme, view.prefersDark)
       IN  view' = ClassSet(
                      [view EXCEPT !.mounted = @ \cup {"navigation"},
                                   !.mobileMenuOpen = FALSE,
                                   !.isScrolled = scroll.isScrolled,
                                   !.scrollListeners = scroll.scrollListeners,
                                   !.darkMode = dark,
                                   !.darkClass = dark,
                                   !.bodyOverflow = "unset",
                                   !.delivered = NoDelivery])
    /\ UNCHANGED <<dirExists, files, result, content, output>>

UnmountNavigation ==
    /\ "navigation" \in view.mounted
    /\ view' = [view EXCEPT !.mounted = @ \ {"navigation"},
                            !.scrollListeners =
                                RemoveListener(@, view.isScrolled),
                            !.bodyOverflow = "unset",
                            !.mobileMenuOpen = FALSE,
                            !.darkMode = FALSE,
                            !.isScrolled = FALSE,
                            !.delivered = NoDelivery]
    /\ UNCHANGED <<dirExists, files, result, content, output>>

\* The window is scrolled to scrollTop.  When the listeners changed
\* isScrolled, Navigation renders and its scroll effect is cleaned up and
\* run again.
Scroll ==
    \E scrollTop \in ScrollPositions :
        /\ LET state == DispatchScroll(view.scrollListeners, scrollTop,
                                       view.isScrolled)
               scroll ==
                   IF "navigation" \in view.mounted /\ state # view.isScrolled
                   THEN ScrollEffect(RemoveListener(view.scrollListeners,
                                                    view.isScrolled),
                                     state, scrollTop)
                   ELSE [scrollListeners |-> view.scrollListeners,
                         isScrolled |-> view.isScrolled]
           IN  view' = [view EXCEPT !.scrollY = scrollTop,
                                    !.isScrolled = scroll.isScrolled,
                                    !.scrollListeners = scroll.scrollListeners,
                                    !.delivered = NoDelivery]
        /\ UNCHANGED <<dirExists, files, result, content, output>>

toggleDarkMode ==
    /\ "navigation" \in view.mounted
    /\ view' = ClassSet(AfterToggle(view))
    /\ UNCHANGED <<dirExists, files, result, content, output>>

\* The menu button: setMobileMenuOpen(!mobileMenuOpen), then the overflow
\* effect.
ToggleMobileMenu ==
    /\ "navigation" \in view.mounted
    /\ view' = [view EXCEPT !.mobileMenuOpen = ~view.mobileMenuOpen,
                            !.bodyOverflow = IF ~view.mobileMenuOpen
                                             THEN "hidden" ELSE "unset",
                            !.delivered = NoDelivery]
    /\ UNCHANGED <<dirExists, files, result, content, output>>

\* A link of the navigation bar is clicked.
handleLinkClick ==
    /\ "navigation" \in view.mounted
    /\ \E href \in Hrefs : view' = AfterLinkClick(view, href)
    /\ UNCHANGED <<dirExists, files, result, content, output>>

(***************************************************************************)
(* The store the build starts from: every directory empty, any of them     *)
(* missing; or one directory holding files.                                *)
(***************************************************************************)
EmptyStore ==
    /\ dirExists \in [Directories -> BOOLEAN]
    /\ files = [d \in Directories |-> <<>>]

StoreWith(dir, headers, maxFiles) ==
    \E listing \in DirectoryListings(headers, maxFiles) :
        /\ dirExists = [d \in Directories |-> TRUE]
        /\ files = [d \in Directories |-> IF d = dir THEN listing ELSE <<>>]

\* No text function has been applied and no component is mounted.
NoOutput == [op |-> "none", readingTime |-> <<0, "">>, toc |-> <<>>]
NoView ==
    [mounted |-> {}, isVisible |-> {}, observing |-> {},
     delivered |-> [target |-> "none", isIntersecting |-> FALSE],
     isDarkMode |-> FALSE, mutationObserver |-> FALSE,
     mobileMenuOpen |-> FALSE, darkMode |-> FALSE, isScrolled |-> FALSE,
     scrollListeners |-> <<>>, scrollY |-> 0, darkClass |-> FALSE,
     theme |-> "none", prefersDark |-> FALSE, bodyOverflow |-> "",
     calendlyLoaded |-> FALSE, widget |-> "none", showSuccess |-> FALSE,
     eventDetails |-> "", scrollTimer |-> FALSE, search |-> <<>>,
     hash |-> ""]

NoTextNoView ==
    /\ content = <<>>
    /\ output = NoOutput
    /\ view = NoView

Init ==
    /\ result = NoCall
    /\ NoTextNoView
    /\ \/ EmptyStore
       \/ \E dir \in Directories : StoreWith(dir, HeadersOf(dir), MaxFiles)

Next ==
    \/ GetAllVentureSlugs
    \/ GetVentureBySlug
    \/ GetAllVentures
    \/ GetFeaturedVentures
    \/ GetAllExperienceSlugs
    \/ GetExperienceBySlug
    \/ GetAllExperiences
    \/ GetAllPostSlugs
    \/ GetPostBySlug
    \/ GetAllPosts

Spec == Init /\ [][Next]_vars

(***************************************************************************)
(* One library at a time, over longer listings.  The sorting of            *)
(* experiences and ventures is examined on files with complete headers.    *)
(***************************************************************************)
InitPosts ==
    /\ result = NoCall
    /\ NoTextNoView
    /\ (EmptyStore \/ StoreWith(POSTS_PATH, PostHeaders, MaxPostFiles))

NextPosts ==
    \/ GetAllPostSlugs
    \/ GetPostBySlug
    \/ GetAllPosts

SpecPosts == InitPosts /\ [][NextPosts]_vars

InitExperiences ==
    /\ result = NoCall
    /\ NoTextNoView
    /\ (EmptyStore \/ StoreWith(experiencesDirectory,
                         CompleteHeaders(experiencesDirectory),
                         MaxExperienceFiles))

NextExperiences ==
    \/ GetAllExperienceSlugs
    \/ GetExperienceBySlug
    \/ GetAllExperiences

SpecExperiences == InitExperiences /\ [][NextExperiences]_vars

InitVentures ==
    /\ result = NoCall
    /\ NoTextNoView
    /\ (EmptyStore \/ StoreWith(venturesDirectory,
                         CompleteHeaders(venturesDirectory),
                         MaxVentureFiles))

NextVentures ==
    \/ GetAllVentureSlugs
    \/ GetVentureBySlug
    \/ GetAllVentures
    \/ GetFeaturedVentures

SpecVentures == InitVentures /\ [][NextVentures]_vars

(***************************************************************************)
(* The pages and the filters, over stores whose headers hold or lack the   *)
(* fields they read.                                                       *)
(***************************************************************************)
InitPages ==
    /\ result = NoCall
    /\ NoTextNoView
    /\ \/ EmptyStore
       \/ StoreWith(POSTS_PATH, PagePostHeaders, MaxPageFiles)
       \/ StoreWith(venturesDirectory, PageVentureHeaders, MaxPageFiles)

NextPages ==
    \/ RenderProjectPage
    \/ RenderBlogPostPage
    \/ GetPostsByCategory
    \/ GetPostsByTag

SpecPages == InitPages /\ [][NextPages]_vars

(***************************************************************************)
(* The slug listers, over directories whose file names share stems and     *)
(* repeat the extension.                                                   *)
(***************************************************************************)
SlugFileNames ==
    {<<"a", ".mdx">>, <<"a", ".md">>, <<"a", ".mdx", ".mdx">>,
     <<"a", ".mdx", ".md">>, <<"a">>, <<"b", ".mdx">>}

\* The listings of up to maxFiles files with different names.
NamedListings(maxFiles) ==
    UNION {{[i \in 1..n |-> [name |-> names[i], readable |-> TRUE,
                             wellFormed |-> TRUE, data |-> <<>>]] :
               names \in {f \in [1..n -> SlugFileNames] :
                              \A i, j \in 1..n : i # j => f[i] # f[j]}} :
           n \in 1..maxFiles}

InitSlugs ==
    /\ result = NoCall
    /\ NoTextNoView
    /\ \/ EmptyStore
       \/ \E dir \in Directories, listing \in NamedListings(MaxSlugFiles) :
             /\ dirExists = [d \in Directories |-> TRUE]
             /\ files = [d \in Directories |-> IF d = dir THEN listing ELSE <<>>]

NextSlugs ==
    \/ GetAllVentureSlugs
    \/ GetAllExperienceSlugs
    \/ GetAllPostSlugs

SpecSlugs == InitSlugs /\ [][NextSlugs]_vars

(***************************************************************************)
(* The text functions, over body texts.                                    *)
(***************************************************************************)
\* The strings over alphabet of at most maxLen characters.
Strings(alphabet, maxLen) ==
    UNION {[1..n -> alphabet] : n \in 0..maxLen}

\* count words "a" with a space between two of them, and a line break after
\* the last when trail.
WordsBody(count, trail) ==
    [i \in 1..(2 * count - 1) |-> IF i % 2 = 1 THEN "a" ELSE " "]
    \o (IF trail THEN <<"\n">> ELSE <<>>)

ReadingBodies ==
    Strings({"a", " ", "\n"}, MaxBodyLen)
    \cup {WordsBody(count, trail) : count \in {200, 450}, trail \in BOOLEAN}

NoStore ==
    /\ dirExists = [d \in Directories |-> TRUE]
    /\ files = [d \in Directories |-> <<>>]
    /\ result = NoCall

NoStoreNoView ==
    /\ NoStore
    /\ view = NoView

InitReadingTime ==
    /\ NoStoreNoView
    /\ content \in ReadingBodies
    /\ output = NoOutput

NextReadingTime == CalculateReadingTime

SpecReadingTime == InitReadingTime /\ [][NextReadingTime]_vars

\* A body of one heading line, and the bodies of up to MaxLines lines that
\* start with up to MaxHashes '#'.
HeadingBodies ==
    {<<"#", "#", " ">> \o title :
        title \in Strings({"A", "b", "1", " ", "!", "-"}, MaxTitleLen)}

TocLines ==
    {[i \in 1..hashes |-> "#"] \o rest :
        hashes \in 0..MaxHashes, rest \in Strings({" ", "b"}, MaxRestLen)}

RECURSIVE JoinLines(_)
JoinLines(lines) ==
    IF Len(lines) = 0 THEN <<>>
    ELSE IF Len(lines) = 1 THEN lines[1]
    ELSE lines[1] \o <<"\n">> \o JoinLines(Tail(lines))

TocBodies ==
    HeadingBodies
    \cup UNION {{JoinLines(lines) : lines \in [1..n -> TocLines]} : n \in 0..MaxLines}

InitToc ==
    /\ NoStoreNoView
    /\ content \in TocBodies
    /\ output = NoOutput

NextToc == ExtractTableOfContents

SpecToc == InitToc /\ [][NextToc]_vars

(***************************************************************************)
(* The home page, over stores of files that parse.                         *)
(***************************************************************************)
InitHome ==
    /\ result = NoCall
    /\ NoTextNoView
    /\ \/ EmptyStore
       \/ \E listing \in ParsedListings(HomeVentureHeaders, MaxHomeVentures) :
             /\ dirExists = [d \in Directories |-> TRUE]
             /\ files = [d \in Directories |->
                            IF d = venturesDirectory THEN listing ELSE <<>>]
       \/ \E listing \in ParsedListings(BlogPostHeaders, MaxHomePosts) :
             /\ dirExists = [d \in Directories |-> TRUE]
             /\ files = [d \in Directories |->
                            IF d = POSTS_PATH THEN listing ELSE <<>>]

NextHome ==
    \/ RenderVenturesSection
    \/ GetAllVentures
    \/ RenderBlogSection
    \/ GetAllPosts

SpecHome == InitHome /\ [][NextHome]_vars

(***************************************************************************)
(* The blog: its listing, its static parameters, the page of a post and    *)
(* the posts next to it.                                                   *)
(***************************************************************************)
InitBlog ==
    /\ result = NoCall
    /\ NoTextNoView
    /\ \/ EmptyStore
       \/ \E listing \in ParsedListings(BlogPostHeaders, MaxBlogFiles) :
             /\ dirExists = [d \in Directories |-> TRUE]
             /\ files = [d \in Directories |->
                            IF d = POSTS_PATH THEN listing ELSE <<>>]

NextBlog ==
    \/ GetAllPosts
    \/ GetPostBySlug
    \/ GenerateStaticParams
    \/ GetAdjacentPosts
    \/ RenderBlogPostPage

SpecBlog == InitBlog /\ [][NextBlog]_vars

(***************************************************************************)
(* The client components in the browser: the page is loaded scrolled or    *)
(* not, with or without a stored theme.                                    *)
(***************************************************************************)
InitViews ==
    /\ NoStore
    /\ content = <<>>
    /\ output = NoOutput
    /\ \E scrollTop \in ScrollPositions, theme \in Themes,
          prefersDark \in BOOLEAN, darkClass \in BOOLEAN :
          view = [NoView EXCEPT !.scrollY = scrollTop,
                                !.theme = theme,
                                !.prefersDark = prefersDark,
                                !.darkClass = darkClass]

NextViews ==
    \/ MountSection
    \/ MountContactSection
    \/ UnmountSection
    \/ UnmountContactSection
    \/ Intersect
    \/ MountNavigation
    \/ UnmountNavigation
    \/ Scroll
    \/ toggleDarkMode
    \/ ToggleMobileMenu
    \/ handleLinkClick
    \/ ScriptLoaded

SpecViews == InitViews /\ [][NextViews]_vars

(***************************************************************************)
(* ContactSection and the Navigation that changes the theme, on a page     *)
(* loaded with or without the parameters of a booking in its url.          *)
(***************************************************************************)
InitContact ==
    /\ NoStore
    /\ content = <<>>
    /\ output = NoOutput
    /\ \E theme \in Themes, prefersDark \in BOOLEAN, darkClass \in BOOLEAN,
          search \in Searches, hash \in Hashes :
          view = [NoView EXCEPT !.theme = theme,
                                !.prefersDark = prefersDark,
                                !.darkClass = darkClass,
                                !.search = search,
                                !.hash = hash]

NextContact ==
    \/ MountContactSection
    \/ UnmountContactSection
    \/ Intersect
    \/ ScriptLoaded
    \/ DismissSuccess
    \/ ScrollTimerFires
    \/ MountNavigation
    \/ UnmountNavigation
    \/ toggleDarkMode

SpecContact == InitContact /\ [][NextContact]_vars

(***************************************************************************)
(* What the store holds, said without the loaders.                         *)
(***************************************************************************)
\* The files of dir that a loader can read and parse.
ParsedFiles(dir) ==
    {i \in 1..Len(files[dir]) :
        /\ files[dir][i].name = <<Stems[i], ".mdx">>
        /\ files[dir][i].readable
        /\ files[dir][i].wellFormed}

\* The .mdx files of dir that cannot be read or do not parse.
FailingFiles(dir) ==
    {i \in 1..Len(files[dir]) :
        /\ files[dir][i].name = <<Stems[i], ".mdx">>
        /\ ~(files[dir][i].readable /\ files[dir][i].wellFormed)}

\* The place in the directory listing of the file a record was read from.
EnumerationIndex(record) ==
    CHOOSE i \in 1..Len(Stems) : record.slug = <<Stems[i]>>

ReturnedSlugs == {result.records[k].slug : k \in 1..Len(result.records)}

MarkedUnpublished(data) ==
    "published" \in DOMAIN data /\ data.published = FALSE

(***************************************************************************)
(* C1. getAllPosts() returns exactly the parsed posts whose published      *)
(* field is not false (a post without the field is listed, a post with     *)
(* published: false is not); getAllPosts(true) returns every parsed post.  *)
(***************************************************************************)
C1_PublishedFilter ==
    result.op = "getAllPosts" =>
        LET listed == {i \in ParsedFiles(POSTS_PATH) :
                          \/ result.includeUnpublished
                          \/ ~MarkedUnpublished(files[POSTS_PATH][i].data)}
        IN  /\ ~result.threw
            /\ ReturnedSlugs = {<<Stems[i]>> : i \in listed}
            /\ Len(result.records) = Cardinality(listed)
            /\ \A k \in 1..Len(result.records) :
                  result.records[k].frontmatter =
                      files[POSTS_PATH][EnumerationIndex(result.records[k])].data

C1_Witness ==
    /\ result.op = "getAllPosts"
    /\ ~result.includeUnpublished
    /\ \E i, j \in ParsedFiles(POSTS_PATH) :
          /\ "published" \notin DOMAIN files[POSTS_PATH][i].data
          /\ <<Stems[i]>> \in ReturnedSlugs
          /\ MarkedUnpublished(files[POSTS_PATH][j].data)
          /\ <<Stems[j]>> \notin ReturnedSlugs

(***************************************************************************)
(* C2. In the list getAllPosts() returns, of any two posts the one with    *)
(* the later date comes first, and two posts of equal date keep the order  *)
(* in which their files were enumerated.                                   *)
(***************************************************************************)
C2_DateDescending ==
    (result.op = "getAllPosts" /\ ~result.threw) =>
        \A i, j \in 1..Len(result.records) :
            LET a == result.records[i]
                b == result.records[j]
            IN  ("date" \in DOMAIN a.frontmatter /\ "date" \in DOMAIN b.frontmatter)
                => /\ a.frontmatter.date > b.frontmatter.date => i < j
                   /\ (/\ a.frontmatter.date = b.frontmatter.date
                       /\ EnumerationIndex(a) < EnumerationIndex(b)) => i < j

(***************************************************************************)
(* C3. In the output of getAllExperiences() an entry with current: true    *)
(* and no order field comes before every entry with current: false and no  *)
(* order field, whatever other entries the list holds.                     *)
(***************************************************************************)
C3_CurrentBeforeCompleted ==
    (result.op = "getAllExperiences" /\ ~result.threw) =>
        \A i, j \in 1..Len(result.records) :
            LET a == result.records[i].frontmatter
                b == result.records[j].frontmatter
            IN  (/\ "order" \notin DOMAIN a
                 /\ "order" \notin DOMAIN b
                 /\ "current" \in DOMAIN a
                 /\ "current" \in DOMAIN b
                 /\ a.current = TRUE
                 /\ b.current = FALSE) => i < j

(***************************************************************************)
(* C4. In the output of getAllExperiences() any two entries that both      *)
(* carry an order field appear in ascending order of that field, also when *)
(* entries without an order field stand among them.                        *)
(***************************************************************************)
C4_OrderAscending ==
    (result.op = "getAllExperiences" /\ ~result.threw) =>
        \A i, j \in 1..Len(result.records) :
            LET a == result.records[i].frontmatter
                b == result.records[j].frontmatter
            IN  (/\ "order" \in DOMAIN a
                 /\ "order" \in DOMAIN b
                 /\ a.order < b.order) => i < j

(***************************************************************************)
(* C5. getAllVentures() returns the ventures in ascending order of their   *)
(* order field, and every venture without an order field comes after all   *)
(* the ventures that have one, whatever value the field takes.             *)
(***************************************************************************)
C5_OrderedThenUnordered ==
    (result.op = "getAllVentures" /\ ~result.threw) =>
        \A i, j \in 1..Len(result.records) :
            LET a == result.records[i].frontmatter
                b == result.records[j].frontmatter
            IN  /\ (/\ "order" \in DOMAIN a
                    /\ "order" \in DOMAIN b
                    /\ a.order < b.order) => i < j
                /\ ("order" \in DOMAIN a /\ "order" \notin DOMAIN b) => i < j

(***************************************************************************)
(* C6. getFeaturedVentures() returns exactly the ventures of               *)
(* getAllVentures() whose featured field is true, in the same relative     *)
(* order; a venture whose featured is absent or false is never returned.   *)
(***************************************************************************)
C6_FeaturedSubsequence ==
    result.op = "getFeaturedVentures" =>
        LET all == getAllVentures.value
            PlaceInAll(venture) == CHOOSE k \in 1..Len(all) : all[k] = venture
        IN  /\ ~result.threw
            /\ \A i \in 1..Len(result.records) :
                  /\ \E k \in 1..Len(all) : all[k] = result.records[i]
                  /\ "featured" \in DOMAIN result.records[i].frontmatter
                  /\ result.records[i].frontmatter.featured = TRUE
            /\ \A k \in 1..Len(all) :
                  ("featured" \in DOMAIN all[k].frontmatter
                      /\ all[k].frontmatter.featured = TRUE)
                  => \E i \in 1..Len(result.records) : result.records[i] = all[k]
            /\ \A i, j \in 1..Len(result.records) :
                  i < j => PlaceInAll(result.records[i]) < PlaceInAll(result.records[j])

C6_Witness ==
    /\ result.op = "getFeaturedVentures"
    /\ Len(result.records) = 2
    /\ Len(getAllVentures.value) = 3
    /\ EnumerationIndex(result.records[1]) > EnumerationIndex(result.records[2])

(***************************************************************************)
(* The calls of each kind, and the directory a call reads.                 *)
(***************************************************************************)
SlugListers == {"getAllVentureSlugs", "getAllExperienceSlugs", "getAllPostSlugs"}
BySlugCalls == {"getVentureBySlug", "getExperienceBySlug", "getPostBySlug"}
GetAllCalls == {"getAllVentures", "getAllExperiences", "getAllPosts"}

DirectoryOf(op) ==
    CASE op \in {"getAllVentureSlugs", "getVentureBySlug", "getAllVentures",
                 "getFeaturedVentures"} -> venturesDirectory
      [] op \in {"getAllExperienceSlugs", "getExperienceBySlug",
                 "getAllExperiences"} -> experiencesDirectory
      [] op \in {"getAllPostSlugs", "getPostBySlug", "getAllPosts"} -> POSTS_PATH

(***************************************************************************)
(* C7. When the content directory of a category does not exist, the slug   *)
(* lister and getAll* of that category return an empty collection and do   *)
(* not throw.                                                              *)
(***************************************************************************)
C7_MissingDirectoryGivesEmpty ==
    [][(/\ result'.op \in SlugListers \cup GetAllCalls
        /\ ~dirExists[DirectoryOf(result'.op)])
       => (/\ ~result'.threw
           /\ result'.slugs = <<>>
           /\ result'.records = <<>>)]_vars

C7_Witness ==
    /\ result.op = "getAllExperiences"
    /\ ~dirExists[experiencesDirectory]
    /\ ~result.threw
    /\ result.records = <<>>

(***************************************************************************)
(* C8. No loader call changes the content store: after any sequence of     *)
(* calls the files and directories are the ones there were before, also    *)
(* when a content directory is missing.                                    *)
(***************************************************************************)
C8_StoreUnchanged == [][dirExists' = dirExists /\ files' = files]_vars

(***************************************************************************)
(* C9. When reading or parsing a content file fails, get*BySlug returns    *)
(* null for it and getAll* returns the records of all the other files of   *)
(* the category (for getAllPosts, those its published filter keeps); no    *)
(* call throws.                                                            *)
(***************************************************************************)
C9_FailingFileIsSkipped ==
    LET dir == DirectoryOf(result.op)
        others == {i \in ParsedFiles(dir) :
                      \/ dir # POSTS_PATH
                      \/ result.includeUnpublished
                      \/ ~MarkedUnpublished(files[dir][i].data)}
    IN  /\ result.op \in BySlugCalls =>
              /\ ~result.threw
              /\ (\E i \in FailingFiles(dir) : result.slug = <<Stems[i]>>)
                    => result.record = Null
        /\ result.op \in GetAllCalls =>
              /\ ~result.threw
              /\ ReturnedSlugs = {<<Stems[i]>> : i \in others}

C9_Witness ==
    /\ result.op = "getAllExperiences"
    /\ FailingFiles(experiencesDirectory) # {}
    /\ ParsedFiles(experiencesDirectory) # {}
    /\ Len(result.records) = Cardinality(ParsedFiles(experiencesDirectory))

(***************************************************************************)
(* C10. Every record that getAllPosts, getAllExperiences, getAllVentures   *)
(* or get*BySlug returns has a header with all the required keys of its    *)
(* category; a file whose header is missing, empty or lacks a required key *)
(* is never returned.                                                      *)
(***************************************************************************)
C10_HeadersComplete ==
    /\ (result.op \in BySlugCalls /\ result.record # Null) =>
          RequiredKeys(DirectoryOf(result.op)) \subseteq DOMAIN result.record.frontmatter
    /\ result.op \in GetAllCalls =>
          \A k \in 1..Len(result.records) :
              RequiredKeys(DirectoryOf(result.op))
                  \subseteq DOMAIN result.records[k].frontmatter

(***************************************************************************)
(* C11. Asking the blog post page or the project page for a slug that has  *)
(* no file in the store ends in the not-found page: not in an exception    *)
(* and not in a rendered page.                                             *)
(***************************************************************************)
PageRequests == {"BlogPostPage", "ProjectPage"}

PageDirectory(op) ==
    IF op = "BlogPostPage" THEN POSTS_PATH ELSE venturesDirectory

\* No file of dir is named slug.mdx.
HasNoFile(dir, slug) ==
    \A i \in 1..Len(files[dir]) : files[dir][i].name # slug \o <<".mdx">>

C11_AbsentSlugIsNotFound ==
    (result.op \in PageRequests
        /\ HasNoFile(PageDirectory(result.op), result.slug))
    => (~result.threw /\ result.outcome = "notFound")

C11_Witness ==
    /\ result.op = "ProjectPage"
    /\ Len(files[venturesDirectory]) = 2
    /\ HasNoFile(venturesDirectory, result.slug)
    /\ result.slug = <<Stems[1]>>
    /\ result.outcome = "notFound"

(***************************************************************************)
(* C18. No content error crashes a load, filter or render path: when a     *)
(* header lacks a field or holds an unexpected value (a venture status     *)
(* that statusConfig does not have, a post without category or tags, a     *)
(* venture without technologies), the item is left out and nothing throws. *)
(***************************************************************************)
C18_NoCrashOnContentError ==
    /\ result.op \in PageRequests => ~result.threw
    /\ result.op \in {"getPostsByCategory", "getPostsByTag"} =>
          /\ ~result.threw
          /\ \A k \in 1..Len(result.records) :
                {"category", "tags"} \subseteq DOMAIN result.records[k].frontmatter

(***************************************************************************)
(* The words of a text: its maximal runs of characters that are not        *)
(* whitespace.                                                             *)
(***************************************************************************)
WordStarts(str) ==
    {i \in 1..Len(str) :
        ~IsWhitespace(str[i]) /\ (i = 1 \/ IsWhitespace(str[i - 1]))}

(***************************************************************************)
(* C12. For every body text calculateReadingTime returns "<m> min read"    *)
(* with m the number of words of the body divided by 200 and rounded up,   *)
(* also for a body that is empty or that begins or ends with whitespace.   *)
(***************************************************************************)
C12_ReadingTimeIsCeilOfWords ==
    output.op = "calculateReadingTime" =>
        LET words == Cardinality(WordStarts(content))
        IN  output.readingTime =
                <<IF words % 200 = 0 THEN words \div 200 ELSE words \div 200 + 1,
                  " min read">>

(***************************************************************************)
(* The k-th smallest member of a set of positions.                         *)
(***************************************************************************)
Nth(positions, k) ==
    CHOOSE i \in positions : Cardinality({j \in positions : j <= i}) = k

(***************************************************************************)
(* C13. The anchor id of a heading is its title in lower case with every   *)
(* maximal run of characters outside [a-z0-9] replaced by one '-', and     *)
(* without a '-' at the start or at the end.                               *)
(***************************************************************************)
\* The lower-case letters and digits of the title, with one '-' for every
\* run of other characters that has a letter or digit on both sides.
AnchorOf(title) ==
    LET low == toLowerCase(title)
        alnum == {i \in 1..Len(low) : low[i] \in LowerAlnum}
        dashes == {i \in 1..Len(low) :
                      /\ i \notin alnum
                      /\ i - 1 \in alnum
                      /\ \E j \in alnum : j > i}
        kept == alnum \cup dashes
    IN  [k \in 1..Cardinality(kept) |->
            IF Nth(kept, k) \in alnum THEN low[Nth(kept, k)] ELSE "-"]

C13_AnchorIds ==
    output.op = "extractTableOfContents" =>
        \A k \in 1..Len(output.toc) :
            /\ output.toc[k].id = AnchorOf(output.toc[k].title)
            /\ output.toc[k].id # <<>> =>
                  /\ output.toc[k].id[1] # "-"
                  /\ output.toc[k].id[Len(output.toc[k].id)] # "-"

C13_Witness ==
    /\ output.op = "extractTableOfContents"
    /\ Len(output.toc) = 1
    /\ output.toc[1].title = <<"A", " ", "!", "b", "!">>
    /\ output.toc[1].id = <<"a", "-", "b">>

(***************************************************************************)
(* C14. extractTableOfContents returns one entry for every line of the     *)
(* body that starts with exactly two or exactly three '#' followed by      *)
(* whitespace and text, in the order of the lines, with level the number   *)
(* of '#' and title the trimmed text after them; a line with one '#' or    *)
(* with four or more gives no entry, and the empty body gives no entry.    *)
(***************************************************************************)
\* The positions at which the lines of str start.
LineStarts(str) ==
    {1} \cup {i + 1 : i \in {j \in 1..Len(str) : str[j] = "\n"}}

\* The position after the last character of the line that starts at p.
LineEnd(str, p) ==
    LET breaks == {i \in p..Len(str) : str[i] = "\n"}
    IN  IF breaks = {} THEN Len(str) + 1
        ELSE CHOOSE i \in breaks : \A j \in breaks : i <= j

\* The number of '#' the line that starts at p begins with.
HashesAt(str, p) ==
    LET others == {i \in p..(LineEnd(str, p) - 1) : str[i] # "#"}
    IN  IF others = {} THEN LineEnd(str, p) - p
        ELSE (CHOOSE i \in others : \A j \in others : i <= j) - p

\* The line at p is a heading of level two or three: its '#' are followed
\* by whitespace and, further on in the line, by text.
IsHeadingLine(str, p) ==
    /\ HashesAt(str, p) \in {2, 3}
    /\ p + HashesAt(str, p) < LineEnd(str, p)
    /\ IsWhitespace(str[p + HashesAt(str, p)])
    /\ \E i \in (p + HashesAt(str, p))..(LineEnd(str, p) - 1) :
          ~IsWhitespace(str[i])

HeadingsOf(str) ==
    LET starts == {p \in LineStarts(str) : p <= Len(str) /\ IsHeadingLine(str, p)}
    IN  [k \in 1..Cardinality(starts) |->
            [level |-> HashesAt(str, Nth(starts, k)),
             title |-> trim(SubSeq(str, Nth(starts, k) + HashesAt(str, Nth(starts, k)),
                                   LineEnd(str, Nth(starts, k)) - 1))]]

C14_OneEntryPerHeadingLine ==
    output.op = "extractTableOfContents" =>
        [k \in 1..Len(output.toc) |->
            [level |-> output.toc[k].level, title |-> output.toc[k].title]]
        = HeadingsOf(content)

C16_SlugsDistinct ==
    (result.op \in SlugListers /\ ~result.threw) =>
        LET dir == DirectoryOf(result.op)
            mdxFiles == {i \in 1..Len(files[dir]) :
                            LET name == files[dir][i].name
                            IN  Len(name) > 0 /\ name[Len(name)] = ".mdx"}
        IN  /\ \A i, j \in 1..Len(result.slugs) :
                  i # j => result.slugs[i] # result.slugs[j]
            /\ \A k \in 1..Len(result.slugs) :
                  \E i \in mdxFiles :
                      files[dir][i].name = result.slugs[k] \o <<".mdx">>
            /\ Len(result.slugs) = Cardinality(mdxFiles)

C16_Witness ==
    /\ result.op = "getAllExperienceSlugs"
    /\ Len(files[experiencesDirectory]) = 3
    /\ result.slugs = << <<"a", ".mdx">>, <<"a">> >>

C19_VisibleOnceAndForGood ==
    [][\A section \in Sections :
          /\ (section \notin view.mounted /\ section \in view'.mounted)
                => section \notin view'.isVisible
          /\ (view'.delivered = [target |-> section, isIntersecting |-> TRUE]
                 /\ view' # view)
                => (/\ section \in view'.isVisible
                    /\ section \notin view'.observing
                    /\ section \notin view.isVisible)
          /\ (section \in view.isVisible /\ section \in view'.mounted)
                => section \in view'.isVisible
          /\ section \in view'.isVisible => section \notin view'.observing]_vars

C19_Witness ==
    /\ view.delivered = [target |-> "blog", isIntersecting |-> TRUE]
    /\ "blog" \in view.mounted
    /\ "blog" \in view.isVisible
    /\ "blog" \notin view.observing
    /\ "hero" \in view.observing

(***************************************************************************)
(* C20. A component that is not mounted has no callback registered: its    *)
(* intersection observer and the mutation observer are disconnected and    *)
(* the scroll listener is removed; while Navigation is mounted window has  *)
(* exactly one scroll listener, also after its scroll effect has run       *)
(* again.                                                                  *)
(***************************************************************************)
C20_NoCallbackOutlivesItsView ==
    /\ view.observing \subseteq view.mounted
    /\ view.mutationObserver => "contact" \in view.mounted
    /\ "navigation" \notin view.mounted => view.scrollListeners = <<>>
    /\ "navigation" \in view.mounted =>
          view.scrollListeners = <<view.isScrolled>>

C20_Witness ==
    /\ "navigation" \notin view.mounted
    /\ view.bodyOverflow = "unset"
    /\ view.scrollY > threshold
    /\ view.scrollListeners = <<>>
    /\ "contact" \notin view.mounted
    /\ view.isDarkMode = FALSE
    /\ view.darkClass

(***************************************************************************)
(* C21. While Navigation is mounted, after its mount and after every       *)
(* scroll event with the effect registered again, isScrolled is true       *)
(* exactly when window.scrollY is above 10: it follows the latest          *)
(* position, and it changes only when the position crosses the threshold.  *)
(***************************************************************************)
C21_ScrolledIffAboveThreshold ==
    [][/\ "navigation" \in view'.mounted
            => view'.isScrolled = (view'.scrollY > 10)
       /\ ("navigation" \in view.mounted /\ "navigation" \in view'.mounted
             /\ view'.isScrolled # view.isScrolled)
            => (view'.scrollY > 10) # (view.scrollY > 10)]_vars

C21_Witness ==
    /\ "navigation" \in view.mounted
    /\ view.scrollY = 10
    /\ ~view.isScrolled
    /\ view.scrollListeners = <<FALSE>>
    /\ view.bodyOverflow = "hidden"

(***************************************************************************)
(* C22. When Navigation mounts, darkMode becomes true exactly when the     *)
(* stored theme is "dark", or no theme is stored and the system prefers    *)
(* dark: a stored theme wins over the system preference; <html> has the    *)
(* class "dark" exactly when darkMode is true.                             *)
(***************************************************************************)
C22_DarkModeOnMount ==
    [][("navigation" \notin view.mounted /\ "navigation" \in view'.mounted)
          => /\ view'.darkMode = (\/ view.theme = "dark"
                                  \/ view.theme = "none" /\ view.prefersDark)
             /\ view.theme = "light" => ~view'.darkMode
             /\ view.theme = "dark" => view'.darkMode
             /\ view'.darkClass = view'.darkMode
             /\ view'.theme = view.theme]_vars

C22_Witness ==
    /\ "navigation" \in view.mounted
    /\ view.theme = "light"
    /\ view.prefersDark
    /\ ~view.darkMode
    /\ ~view.darkClass
    /\ ~view.mobileMenuOpen
    /\ view.scrollListeners = <<TRUE>>

(***************************************************************************)
(* C24. While Navigation is mounted <html> has the class "dark" exactly    *)
(* when darkMode is true; a toggle flips darkMode and stores "dark" when   *)
(* darkMode has become true and "light" otherwise, so that with a theme    *)
(* stored the theme says what darkMode is; two toggles in a row give back  *)
(* darkMode and the class.                                                 *)
(***************************************************************************)
C24_ToggleKeepsClassAndStore ==
    "navigation" \in view.mounted =>
        LET once == checkDarkMode(AfterToggle(view))
            twice == checkDarkMode(AfterToggle(once))
        IN  /\ view.darkClass = view.darkMode
            /\ view.theme # "none" => (view.theme = "dark") = view.darkMode
            /\ once.darkMode = ~view.darkMode
            /\ once.darkClass = once.darkMode
            /\ once.theme = IF once.darkMode THEN "dark" ELSE "light"
            /\ twice.darkMode = view.darkMode
            /\ twice.darkClass = view.darkClass
            /\ twice.theme = IF view.darkMode THEN "dark" ELSE "light"

C24_Witness ==
    /\ "navigation" \in view.mounted
    /\ view.theme = "light"
    /\ ~view.prefersDark
    /\ ~view.darkMode
    /\ ~view.darkClass
    /\ "contact" \in view.mounted
    /\ ~view.isDarkMode
    /\ view.mobileMenuOpen

(***************************************************************************)
(* C29. While Navigation is mounted the overflow of document.body is       *)
(* "hidden" when the mobile menu is open and "unset" when it is closed,    *)
(* and it is "unset" once Navigation is unmounted; whatever clicks came    *)
(* before, a click on a link that starts with "#" leaves the menu closed   *)
(* and a click on another link leaves mobileMenuOpen as it was.            *)
(***************************************************************************)
C29_OverflowFollowsMenu ==
    [][/\ "navigation" \in view'.mounted =>
            /\ view'.bodyOverflow =
                  IF view'.mobileMenuOpen THEN "hidden" ELSE "unset"
            /\ LET anchor == AfterLinkClick(view', <<"#", "a">>)
                   other == AfterLinkClick(view', <<"/", "a">>)
                   empty == AfterLinkClick(view', <<>>)
               IN  /\ ~anchor.mobileMenuOpen
                   /\ anchor.bodyOverflow = "unset"
                   /\ other.mobileMenuOpen = view'.mobileMenuOpen
                   /\ other.bodyOverflow = view'.bodyOverflow
                   /\ empty.mobileMenuOpen = view'.mobileMenuOpen
       /\ ("navigation" \in view.mounted /\ "navigation" \notin view'.mounted)
            => /\ view'.bodyOverflow = "unset"
               /\ ~view'.mobileMenuOpen]_vars

C29_Witness ==
    /\ "navigation" \in view.mounted
    /\ view.mobileMenuOpen
    /\ view.bodyOverflow = "hidden"
    /\ view.isScrolled
    /\ view.darkMode

(***************************************************************************)
(* C25. The ventures section of the home page shows only ventures whose    *)
(* featured field is true, at most 6 of them, in the order of              *)
(* getAllVentures(); it shows the "View all N projects" link exactly when  *)
(* there is a venture, and N is the number of all ventures.                *)
(***************************************************************************)
C25_HomeShowsFeaturedVentures ==
    (result.op = "VenturesSection" /\ ~result.threw) =>
        LET all == getAllVentures.value
            position(id) == CHOOSE k \in 1..Len(all) : all[k].slug = id
        IN  /\ \A i \in 1..Len(result.shown) :
                  \E k \in ParsedFiles(venturesDirectory) :
                      /\ result.shown[i] = <<Stems[k]>>
                      /\ Has(files[venturesDirectory][k].data, "featured")
                      /\ files[venturesDirectory][k].data.featured = TRUE
            /\ Len(result.shown) <= 6
            /\ \A i, j \in 1..Len(result.shown) :
                  i < j => position(result.shown[i]) < position(result.shown[j])
            /\ result.viewAll = (Cardinality(ParsedFiles(venturesDirectory)) >= 1)
            /\ result.total = Cardinality(ParsedFiles(venturesDirectory))

(***************************************************************************)
(* C26. BlogSection hands its client the first min(3, n) posts of          *)
(* getAllPosts(), n being the number of posts not marked unpublished:      *)
(* they are the newest published posts, the later date first; totalPosts   *)
(* is n, and the "View all" link is there exactly when n > 3.              *)
(***************************************************************************)
C26_HomeShowsNewestPosts ==
    result.op = "BlogSection" =>
        LET all == getAllPosts(FALSE).value
            published == {i \in ParsedFiles(POSTS_PATH) :
                             ~MarkedUnpublished(files[POSTS_PATH][i].data)}
            n == Cardinality(published)
            passed == {EnumerationIndex(result.records[k]) :
                          k \in 1..Len(result.records)}
            dated(i) == "date" \in DOMAIN files[POSTS_PATH][i].data
            dateOf(i) == files[POSTS_PATH][i].data.date
        IN  /\ ~result.threw
            /\ Len(result.records) = Min(3, n)
            /\ \A k \in 1..Len(result.records) : result.records[k] = all[k]
            /\ passed \subseteq published
            /\ result.total = n
            /\ result.viewAll = (n > 3)
            /\ \A i \in passed, j \in published \ passed :
                  (dated(i) /\ dated(j)) => dateOf(i) >= dateOf(j)
            /\ \A k, l \in 1..Len(result.records) :
                  LET i == EnumerationIndex(result.records[k])
                      j == EnumerationIndex(result.records[l])
                  IN  (dated(i) /\ dated(j) /\ dateOf(i) > dateOf(j)) => k < l

(***************************************************************************)
(* C27. For the post at index i of getAllPosts(), getAdjacentPosts gives   *)
(* as previous the post at i+1, which is not newer, or null when i is the  *)
(* last index, and as next the post at i-1, which is not older, or null    *)
(* when i is the first; neither is the current post.  For a slug that is   *)
(* not in the list next is null and previous is the first post of the      *)
(* list, or null when the list is empty.                                   *)
(***************************************************************************)
C27_AdjacentPosts ==
    result.op = "getAdjacentPosts" =>
        LET all == getAllPosts(FALSE).value
            at == {i \in 1..Len(all) : all[i].slug = result.slug}
            dated(post) == "date" \in DOMAIN post.frontmatter
        IN  /\ ~result.threw
            /\ \A i \in at :
                  /\ result.previous = IF i < Len(all) THEN all[i + 1] ELSE Null
                  /\ result.next = IF i > 1 THEN all[i - 1] ELSE Null
                  /\ result.previous # all[i]
                  /\ result.next # all[i]
                  /\ (result.previous # Null /\ dated(result.previous)
                        /\ dated(all[i]))
                       => result.previous.frontmatter.date
                              <= all[i].frontmatter.date
                  /\ (result.next # Null /\ dated(result.next) /\ dated(all[i]))
                       => result.next.frontmatter.date >= all[i].frontmatter.date
            /\ at = {} =>
                  /\ result.next = Null
                  /\ result.previous = IF Len(all) > 0 THEN all[1] ELSE Null

C27_Witness ==
    /\ result.op = "getAdjacentPosts"
    /\ result.slug = <<"b">>
    /\ result.previous # Null
    /\ result.next # Null
    /\ "date" \in DOMAIN result.previous.frontmatter
    /\ "date" \in DOMAIN result.next.frontmatter
    /\ result.previous.frontmatter.date < result.next.frontmatter.date

(***************************************************************************)
(* C28. The published flag only affects the listings.  A post marked       *)
(* published: false is not in getAllPosts(); its slug is among the static  *)
(* parameters of the blog, which are the slugs of all .mdx files;          *)
(* getPostBySlug returns it, and BlogPostPage does not end in not found:   *)
(* it renders the post when the header has the fields the page reads.      *)
(***************************************************************************)
C28_UnpublishedStillHasItsPage ==
    LET unpublished == {i \in ParsedFiles(POSTS_PATH) :
                           MarkedUnpublished(files[POSTS_PATH][i].data)}
        asked == {i \in unpublished : result.slug = <<Stems[i]>>}
    IN  /\ (result.op = "getAllPosts" /\ ~result.includeUnpublished) =>
              \A i \in unpublished : <<Stems[i]>> \notin ReturnedSlugs
        /\ result.op = "generateStaticParams" =>
              /\ ~result.threw
              /\ \A i \in unpublished :
                    \E k \in 1..Len(result.slugs) : result.slugs[k] = <<Stems[i]>>
              /\ Len(result.slugs) = Cardinality(ParsedFiles(POSTS_PATH))
        /\ result.op = "getPostBySlug" =>
              \A i \in asked :
                  /\ ~result.threw
                  /\ result.record =
                        [slug |-> <<Stems[i]>>,
                         frontmatter |-> files[POSTS_PATH][i].data]
        /\ result.op = "BlogPostPage" =>
              \A i \in asked :
                  /\ result.outcome # "notFound"
                  /\ {"author", "tags"} \subseteq DOMAIN files[POSTS_PATH][i].data
                       => (~result.threw /\ result.outcome = "rendered")

C28_Witness ==
    /\ result.op = "BlogPostPage"
    /\ result.slug = <<"b">>
    /\ result.outcome = "rendered"
    /\ Len(files[POSTS_PATH]) >= 2
    /\ MarkedUnpublished(files[POSTS_PATH][2].data)
    /\ ~MarkedUnpublished(files[POSTS_PATH][1].data)

(***************************************************************************)
(* C23. While ContactSection is mounted isDarkMode is what the class       *)
(* "dark" of <html> is, after every change of the class; once the script   *)
(* of Calendly has loaded, the widget has been initialised with the url    *)
(* whose colours are those of the theme as it is now; before the script    *)
(* has loaded initInlineWidget has not been called.                        *)
(***************************************************************************)
C23_WidgetFollowsTheme ==
    "contact" \in view.mounted =>
        /\ view.isDarkMode = view.darkClass
        /\ view.mutationObserver
        /\ view.calendlyLoaded =>
              view.widget = IF view.darkClass THEN "dark" ELSE "light"
        /\ ~view.calendlyLoaded => view.widget = "none"

C23_Witness ==
    /\ "contact" \in view.mounted
    /\ "navigation" \in view.mounted
    /\ view.calendlyLoaded
    /\ view.darkClass
    /\ view.widget = "dark"
    /\ view.theme = "dark"
    /\ ~view.prefersDark

(***************************************************************************)
(* C30. When ContactSection mounts, the success banner is shown only if    *)
(* the query of the page's url has event_type_uuid, and it is shown when   *)
(* the parameter has a value; the query is then removed from the url and   *)
(* the fragment is kept.  After the mount showSuccess never becomes true,  *)
(* so it stays false once the banner was dismissed.                        *)
(***************************************************************************)
C30_SuccessBannerOnce ==
    [][/\ ("contact" \notin view.mounted /\ "contact" \in view'.mounted) =>
            LET carried == \E i \in 1..Len(view.search) :
                               view.search[i][1] = "event_type_uuid"
                valued == \E i \in 1..Len(view.search) :
                              /\ view.search[i][1] = "event_type_uuid"
                              /\ view.search[i][2] # ""
            IN  /\ view'.showSuccess => carried
                /\ valued => view'.showSuccess
                /\ view'.showSuccess => view'.search = <<>>
                /\ ~view'.showSuccess => view'.search = view.search
       /\ ("contact" \in view.mounted /\ "contact" \in view'.mounted
             /\ ~view.showSuccess) => ~view'.showSuccess
       /\ view'.hash = view.hash]_vars

C30_Witness ==
    /\ "contact" \in view.mounted
    /\ ~view.showSuccess
    /\ view.eventDetails = "n"
    /\ view.search = <<>>
    /\ view.hash = "#contact"
    /\ view.calendlyLoaded
====
